---- MODULE Spec2Model ----
(***************************************************************************)
(* A model of the adaptive orchestration layer of search-fetch-mcp:        *)
(*   - ConcurrencyLimiter   (dist/concurrency-limiter.js)                  *)
(*   - BrowserPool          (browser-pool.ts)                              *)
(*   - DuckDuckGoSearcher   (src/searcher.ts), endpoint failover and retry *)
(* The three components are modelled side by side; each has its own        *)
(* specification (SpecLimiter, SpecPool, SpecSearch) over the same         *)
(* variables, the other components staying in their initial state.         *)
(*                                                                         *)
(* JavaScript runs the code of one callback to its next await without      *)
(* interruption, so an action is the code between two suspension points.   *)
(***************************************************************************)
EXTENDS Integers, Sequences, FiniteSets, TLC

(***************************************************************************)
(* Bounds of the model.                                                    *)
(***************************************************************************)
\* tasks ever submitted to one limiter
MaxTasks == 4
\* tasks in the executeAll batch
MaxBatch == 2
\* largest maxConcurrency a limiter is constructed with
MaxConcurrencyBound == 2
\* concurrent callers of the browser pool
MaxCallers == 2
\* browser processes, contexts and pages ever created by one pool
MaxBrowsers == 2
MaxContexts == 2
MaxPages == 2
\* prewarming timers pending at once
MaxTimers == 1
\* largest maxTabs a pool is constructed with
MaxTabsBound == 2
\* deepest nesting of fetchWebpage calls that is explored
MaxFetchDepth == 5
\* largest requestsPerSecond a rate limiter is constructed with
MaxRequestsPerSecond == 2
\* accepted checkLimit calls in one behaviour
MaxChecks == 4
\* the clock stops here, in ms
MaxClock == 3000

(***************************************************************************)
(* Constants of the program.                                               *)
(***************************************************************************)
\* domains.length
NumDomains == 4
\* search(): maxRetries
MaxRetries == 3

Tasks == 1..MaxTasks
Priorities == {"high", "normal", "low"}

VARIABLES
  \* ---- ConcurrencyLimiter ----
  maxConcurrency,   \* readonly maxConcurrency
  running,          \* this.running
  queue,            \* this.queue: QueueItem records [id, priority], head first
  completedCount,   \* this.completedCount
  failedCount,      \* this.failedCount
  nextTask,         \* id the next submitted task gets: ids number the submissions
  tstate,           \* per task: "new" | "queued" | "running" | "finished" | "dropped"
  startCount,       \* per task: how many times queueItem.task() was called
  \* ---- one executeAll call ----
  bState,           \* "none" | "active" | "resolved" | "rejected"
  bFirst,           \* the batch holds tasks bFirst+1 .. bFirst+bSize
  bSize,            \* tasks.length
  bFailFast,        \* options.failFast
  bTimeout,         \* options.timeout is set
  wres,             \* per position: <<>> while executeTask is pending, else <<its outcome>>
  completedTasks,   \* the closure's completedTasks counter
  results,          \* what executeAll returned
  \* ---- BrowserPool ----
  maxTabs,             \* readonly maxTabs
  isPrewarmingEnabled, \* options.enablePrewarming === true
  singleBrowser,       \* this.singleBrowser: a browser number, 0 for null
  browsers,            \* per browser: "none" | "alive" | "dead"
  contexts,            \* this.contexts: context id -> context number, 0 for absent
  ctxs,                \* per context object: [key, browser, open]
  pages,               \* per page object: [context, open]
  activeTabs,          \* this.activeTabs
  prewarmedTabs,       \* this.prewarmedTabs
  totalTabsCreated,    \* this.totalTabsCreated
  totalTabsClosed,     \* this.totalTabsClosed
  cleanupInterval,     \* this.cleanupInterval is set
  pc,                  \* per process: the await it is suspended at
  loc,                 \* per process: the locals of its call
  timers,              \* pending prewarming timers: the count each will prewarm
  sweep,               \* cleanupIdleContexts in flight: id -> context being closed
  \* ---- DuckDuckGoSearcher ----
  currentDomainIndex,  \* this.currentDomainIndex
  domainSwitches,      \* responseTimeStats.adaptiveAdjustments.domainSwitches
  hasBrowserPool,      \* this.browserPool is set
  fallbackToBrowser,   \* this.fallbackToBrowser
  sPc,                 \* the search() call: "idle" | "request" | "delay" | "browser" | "returned" | "failed"
  attempt,             \* search(): attempt
  attempts,            \* performSingleSearch: attempts
  attemptedDomains,    \* performSingleSearch: attemptedDomains
  lastError,           \* code of lastError
  sweepStart,          \* the cursor when the current sweep began
  sweepLog,            \* endpoints the current sweep requested, in order
  sweepEnd,            \* "none" | "running" | "ok" | "aborted" | "allFailed"
  requests,            \* per endpoint: requests made by the current search() call
  escalations,         \* browser escalations entered by the current search() call
  raised               \* the error search() threw to its caller, NoError before that

limVars == <<maxConcurrency, running, queue, completedCount, failedCount, nextTask,
             tstate, startCount>>
batchVars == <<bState, bFirst, bSize, bFailFast, bTimeout, wres, completedTasks, results>>

poolVars == <<maxTabs, isPrewarmingEnabled, singleBrowser, browsers, contexts, ctxs,
              pages, activeTabs, prewarmedTabs, totalTabsCreated, totalTabsClosed,
              cleanupInterval, pc, loc, timers, sweep>>

searchVars == <<currentDomainIndex, domainSwitches, hasBrowserPool, fallbackToBrowser, sPc,
                attempt, attempts, attemptedDomains, lastError, sweepStart, sweepLog,
                sweepEnd, requests, escalations, raised>>

\* ---- WebpageFetcher.fetchWebpage and its 403 retry ----
VARIABLES
  fstack,          \* the fetchWebpage calls in progress, outermost first
  fetchRequests,   \* requests sent by fetchHtml since the outermost call began
  allDenied,       \* every answer since the outermost call began was a 403
  fetchResult      \* what the outermost call returned: "none" while it runs

fetchVars == <<fstack, fetchRequests, allDenied, fetchResult>>

\* ---- BrowserPool.cleanup called as the pool's shutdown ----
VARIABLES
  cleanupCall,            \* the cleanup() call: the step it is in and each close it awaits
  enableStatePersistence  \* this.enableStatePersistence && this.stateFile

cleanupVars == <<cleanupCall, enableStatePersistence>>

\* ---- DuckDuckGoSearcher.batchSearch ----
VARIABLES
  bsPc,           \* the batchSearch call: "idle" | "running" | "resolved" | "rejected"
  queries,        \* its queries argument
  singleResults,  \* per position: <<>>, or <<what executeSingleSearch returned>>
  batchResults    \* what batchSearch resolved with

bsVars == <<bsPc, queries, singleResults, batchResults>>

\* ---- RateLimiter ----
VARIABLES
  requestsPerSecond,  \* this.config.requestsPerSecond
  requestTimes,       \* this.requests: the times of the accepted calls it still holds
  now,                \* Date.now(), in ms
  accepted,           \* the time of every call checkLimit accepted, in order
  lastCheck           \* the last checkLimit call: the time, whether the window was full, the outcome

rlVars == <<requestsPerSecond, requestTimes, now, accepted, lastCheck>>

\* ---- DuckDuckGoSearcher.performMultiStageCapcthaDetection ----
VARIABLES
  response,      \* the response examined last: which checks of each stage it matches
  detection,     \* what performMultiStageCapcthaDetection returned for it
  captchaEvents  \* this.performanceBreakdown.captchaEvents

capVars == <<response, detection, captchaEvents>>

\* ---- ConcurrencyLimiter.recordFailure and getBackoffDelay ----
VARIABLES
  recentFailures,  \* this.recentFailures: the times of the failures it still holds
  clock,           \* Date.now(), in ms
  lastBackoff      \* the last getBackoffDelay() call: the time and the delay, in 1/100 ms

boVars == <<recentFailures, clock, lastBackoff>>

\* ---- DuckDuckGoSearcher.recordResponseTime: trend analysis and adaptive adjustments ----
VARIABLES
  recentResponseTimes,    \* responseTimeStats.recentResponseTimes, in seconds
  totalRequests,          \* responseTimeStats.totalRequests
  totalResponseTime,      \* responseTimeStats.totalResponseTime, in seconds
  baselineSum,            \* 10 * responseTimeStats.baselineResponseTime: 0 until it is set
  responseTrend,          \* responseTimeStats.responseTrend
  trendConfidence,        \* responseTimeStats.trendConfidence, in 1/100
  concurrencyReductions,  \* adaptiveAdjustments.concurrencyReductions
  totalErrors,            \* the sum of performanceBreakdown.errorBreakdown
  latencyChanges,         \* how often a latency differed from the one recorded before it
  lastAdjust              \* what the last performAdaptiveAdjustments() did, and the counters before

trendVars == <<recentResponseTimes, totalRequests, totalResponseTime, baselineSum,
               responseTrend, trendConfidence, concurrencyReductions, totalErrors,
               latencyChanges, lastAdjust>>

\* ---- PlaywrightNodeBridge.executeFetchWithTimeout ----
VARIABLES
  workerCalls  \* per invocation: the child process and the closure of its promise

workerVars == <<workerCalls>>

\* ---- BrowserPool.switchToHeadedMode ----
VARIABLES
  switchCall,  \* the switchToHeadedMode() call: the step it is in and each promise it awaits
  isHeadless   \* this.isHeadless

switchVars == <<switchCall, isHeadless>>

\* ---- BrowserPool: the prewarmed tabs, their hand-out and replenishment ----
VARIABLES
  warmTabs,    \* this.prewarmedTabs.length
  warmTimers,  \* the counts of the prewarmTabs(count) calls waiting on a timer
  warmRuns,    \* per prewarmTabs call in its loop: the pages it has yet to create
  handedOut    \* the prewarmed tabs handed out so far

warmVars == <<warmTabs, warmTimers, warmRuns, handedOut>>

\* ---- DuckDuckGoSearcher.search: the delay after a timeout ----
VARIABLES
  timeouts,        \* performanceBreakdown.errorBreakdown.timeouts
  tryNo,           \* attempt, the loop counter of the search() call in progress
  recentOutcomes,  \* the outcomes of the last three attempts, oldest first
  lastDelay        \* the delay the last failed attempt was followed by

toVars == <<timeouts, tryNo, recentOutcomes, lastDelay>>

\* ---- DuckDuckGoSearcher.performSingleSearch: calls in flight together ----
VARIABLES
  sweeps  \* per call: where it is, its attempts counter and its attemptedDomains

ccVars == <<sweeps>>

extVars == <<boVars, trendVars, workerVars, switchVars, warmVars, toVars, ccVars>>

auxVars == <<fetchVars, cleanupVars, bsVars, rlVars, capVars, extVars>>

\* what recordFailure and getBackoffDelay leave alone
boFrame == <<maxConcurrency, running, queue, completedCount, nextTask, tstate, startCount,
             batchVars, poolVars, searchVars, fetchVars, cleanupVars, bsVars, rlVars, capVars,
             trendVars, workerVars, switchVars, warmVars, toVars, ccVars>>

\* what a step of executeFetchWithTimeout leaves alone
workerFrame == <<limVars, batchVars, poolVars, searchVars, fetchVars, cleanupVars, bsVars,
                 rlVars, capVars, boVars, trendVars, switchVars, warmVars, toVars, ccVars>>

\* what a step of switchToHeadedMode leaves alone
switchFrame == <<limVars, batchVars, searchVars, fetchVars, cleanupVars, bsVars, rlVars,
                 capVars, boVars, trendVars, workerVars, warmVars, toVars, ccVars>>

\* what the hand-out and the replenishment of prewarmed tabs leave alone
warmFrame == <<limVars, batchVars, poolVars, searchVars, fetchVars, cleanupVars, bsVars,
               rlVars, capVars, boVars, trendVars, workerVars, switchVars, toVars, ccVars>>

\* what an attempt of search() leaves alone here
toFrame == <<limVars, batchVars, poolVars, searchVars, fetchVars, cleanupVars, bsVars,
             rlVars, capVars, boVars, trendVars, workerVars, switchVars, warmVars, ccVars>>

\* what recordResponseTime leaves alone
trendFrame == <<running, queue, completedCount, failedCount, nextTask, tstate, startCount,
                batchVars, poolVars, hasBrowserPool, fallbackToBrowser, sPc, attempt,
                attempts, attemptedDomains, lastError, sweepStart, sweepLog, sweepEnd,
                requests, escalations, raised, fetchVars, cleanupVars, bsVars, rlVars,
                capVars, boVars, workerVars, switchVars, warmVars, toVars, ccVars>>

\* what a step of a performSingleSearch call leaves alone
ccFrame == <<limVars, batchVars, poolVars, hasBrowserPool, fallbackToBrowser, sPc, attempt,
             attempts, attemptedDomains, lastError, sweepStart, sweepLog, sweepEnd,
             requests, escalations, raised, fetchVars, cleanupVars, bsVars, rlVars,
             capVars, boVars, trendVars, workerVars, switchVars, warmVars, toVars>>

\* what block detection leaves alone
capFrame == <<limVars, batchVars, poolVars, searchVars, fetchVars, cleanupVars, bsVars, rlVars, extVars>>

\* what a step of the rate limiter leaves alone
rlFrame == <<limVars, batchVars, poolVars, searchVars, fetchVars, cleanupVars, bsVars, capVars, extVars>>

\* what a step of fetchWebpage leaves alone
fetchFrame == <<limVars, batchVars, poolVars, searchVars, cleanupVars, bsVars, rlVars, capVars, extVars>>

\* what a step of cleanup() leaves alone
cleanupFrame == <<limVars, batchVars, searchVars, fetchVars, bsVars, rlVars, capVars, extVars,
                  maxTabs, isPrewarmingEnabled>>

\* what a step of batchSearch leaves alone
bsFrame == <<poolVars, searchVars, fetchVars, cleanupVars, rlVars, capVars, extVars>>

(***************************************************************************)
(* ConcurrencyLimiter                                                      *)
(***************************************************************************)

\* const priorityOrder = { high: 3, normal: 2, low: 1 }
PriorityOrder(p) == CASE p = "high" -> 3 [] p = "normal" -> 2 [] OTHER -> 1

\* The mutable part of a limiter as one value, so that the synchronous calls of
\* one callback (execute after execute in tasks.map) can be chained.
Lim == [running |-> running, queue |-> queue, tstate |-> tstate,
        startCount |-> startCount]

\* A bug: >= inserts an item before the queued items of its own priority.
InsertIndexLifo(q, p) ==
  LET hits == {i \in 1..Len(q) : PriorityOrder(p) >= PriorityOrder(q[i].priority)}
  IN  IF hits = {} THEN Len(q) + 1
      ELSE CHOOSE i \in hits : \A j \in hits : i <= j

\* addToQueue's loop: the first index whose item has strictly lower priority,
\* else the length (written 1-based).
InsertIndex(q, p) ==
  LET hits == {i \in 1..Len(q) : PriorityOrder(p) > PriorityOrder(q[i].priority)}
  IN  IF hits = {} THEN Len(q) + 1
      ELSE CHOOSE i \in hits : \A j \in hits : i <= j

\* this.queue.splice(insertIndex, 0, item)
AddToQueue(q, item) ==
  LET k == InsertIndex(q, item.priority)
  IN  SubSeq(q, 1, k - 1) \o <<item>> \o SubSeq(q, k, Len(q))

\* queueItem.task() up to its `await task()`: running++ and the task is started.
StartTask(L, t) ==
  [L EXCEPT !.running = @ + 1, !.tstate[t] = "running", !.startCount[t] = @ + 1]

\* A bug: admits one task too many.
AdmitOffByOne(L, t, p) ==
  IF L.running <= maxConcurrency
  THEN StartTask(L, t)
  ELSE [L EXCEPT !.queue = AddToQueue(L.queue, [id |-> t, priority |-> p]),
                 !.tstate[t] = "queued"]

\* The executor of execute()'s promise: start now or enqueue.
Admit(L, t, p) ==
  IF L.running < maxConcurrency
  THEN StartTask(L, t)
  ELSE [L EXCEPT !.queue = AddToQueue(L.queue, [id |-> t, priority |-> p]),
                 !.tstate[t] = "queued"]

\* A bug: starts the head of the queue without removing it.
ProcessQueueNoShift(L) ==
  IF Len(L.queue) > 0 /\ L.running < maxConcurrency
  THEN StartTask(L, Head(L.queue).id)
  ELSE L

\* A bug: the freed slot is not handed to the queue.
ProcessQueueIdle(L) == L

\* processQueue(): queue.shift() and start it, when there is room.
ProcessQueue(L) ==
  IF Len(L.queue) > 0 /\ L.running < maxConcurrency
  THEN StartTask([L EXCEPT !.queue = Tail(@)], Head(L.queue).id)
  ELSE L

\* The finally block of queueItem.task: running-- ; processQueue().
Finish(L, t) ==
  ProcessQueue([L EXCEPT !.running = @ - 1, !.tstate[t] = "finished"])

\* tasks.map(executeTask): execute() is called for each task in input order
\* before anything else runs. ps[i] is the priority of the i-th task of the batch.
RECURSIVE SubmitAll(_, _, _, _)
SubmitAll(L, first, i, ps) ==
  IF i > Len(ps) THEN L
  ELSE SubmitAll(Admit(L, first + i, ps[i]), first, i + 1, ps)

SetLim(L) ==
  /\ running' = L.running
  /\ queue' = L.queue
  /\ tstate' = L.tstate
  /\ startCount' = L.startCount

(***************************************************************************)
(* executeAll                                                              *)
(***************************************************************************)

InBatch(t) == bState # "none" /\ t > bFirst /\ t <= bFirst + bSize

\* A bug: the result is tagged with the completion rank, not the input index.
OutcomeByCompletion(i, err, k) ==
  [success |-> err = "none", index |-> k - 1, task |-> bFirst + i, error |-> err,
   duration |-> k]

\* What executeTask returns for the task at (1-based) position i: the code's
\* index is 0-based; `task` stands for the result value and the task name;
\* error is "none", "task" (the task's own exception) or "timeout".
\* k is completedTasks after its increment; every executeTask of a batch starts
\* its clock in the same callback, so duration orders the results as k does.
Outcome(i, err, k) ==
  [success |-> err = "none", index |-> i - 1, task |-> bFirst + i, error |-> err,
   duration |-> k]

\* Promise.all: the values in the order of the input promises.
PromiseAll(w, n) == [i \in 1..n |-> w[i][1]]

\* results.sort((a, b) => a.index - b.index): a stable sort on index.
InsertByIndex(s, r) ==
  LET k == Cardinality({i \in 1..Len(s) : s[i].index <= r.index})
  IN  SubSeq(s, 1, k) \o <<r>> \o SubSeq(s, k + 1, Len(s))

RECURSIVE SortByIndex(_)
SortByIndex(s) ==
  IF s = <<>> THEN <<>>
  ELSE InsertByIndex(SortByIndex(SubSeq(s, 1, Len(s) - 1)), s[Len(s)])

\* A bug: the catch block rethrows whatever failFast says.
WrapperThrowsAlways(ff) == TRUE

\* catch: if (failFast) throw error
WrapperThrows(ff) == ff

\* The rest of executeTask once the race at position i is decided with err.
\* extraFailed is what the same callback already added to failedCount.
WrapperSettles(i, err, extraFailed) ==
  /\ completedTasks' = completedTasks + 1
  /\ wres' = [wres EXCEPT ![i] = <<Outcome(i, err, completedTasks + 1)>>]
  /\ IF err = "none"
     THEN /\ failedCount' = failedCount + extraFailed
          /\ UNCHANGED bState
     ELSE \* recordFailure(): failedCount++
          /\ failedCount' = failedCount + extraFailed + 1
          /\ bState' = IF WrapperThrows(bFailFast) /\ bState = "active"
                       THEN "rejected" ELSE bState
  /\ UNCHANGED <<bFirst, bSize, bFailFast, bTimeout, results>>

(***************************************************************************)
(* Limiter actions                                                         *)
(***************************************************************************)

\* execute(task, p): one task submitted on its own.
Execute(p) ==
  /\ nextTask <= MaxTasks
  /\ SetLim(Admit(Lim, nextTask, p))
  /\ nextTask' = nextTask + 1
  /\ UNCHANGED <<maxConcurrency, completedCount, failedCount, batchVars>>

\* executeAll(tasks, {failFast, timeout}) up to `await Promise.all(...)`.
\* A task without a priority gets execute()'s default, "normal".
ExecuteAll(ff, to, ps) ==
  /\ bState = "none"
  /\ nextTask + Len(ps) - 1 <= MaxTasks
  /\ SetLim(SubmitAll(Lim, nextTask - 1, 1, ps))
  /\ nextTask' = nextTask + Len(ps)
  /\ bState' = "active"
  /\ bFirst' = nextTask - 1
  /\ bSize' = Len(ps)
  /\ bFailFast' = ff
  /\ bTimeout' = to
  /\ UNCHANGED <<maxConcurrency, completedCount, failedCount, wres, completedTasks, results>>

\* The promise of running task t settles: the rest of queueItem.task (try/catch,
\* finally with processQueue), then the executeTask that awaits it, if any.
TaskSettles(t, ok) ==
  /\ tstate[t] = "running"
  /\ SetLim(Finish(Lim, t))
  /\ completedCount' = IF ok THEN completedCount + 1 ELSE completedCount
  /\ IF InBatch(t) /\ wres[t - bFirst] = <<>>
     THEN WrapperSettles(t - bFirst, IF ok THEN "none" ELSE "task", IF ok THEN 0 ELSE 1)
     ELSE /\ failedCount' = IF ok THEN failedCount ELSE failedCount + 1
          /\ UNCHANGED batchVars
  /\ UNCHANGED <<maxConcurrency, nextTask>>

\* The timer of the race at position i fires before the task's promise settles.
Timeout(i) ==
  /\ bState # "none"
  /\ bTimeout
  /\ i \in 1..bSize
  /\ wres[i] = <<>>
  /\ WrapperSettles(i, "timeout", 0)
  /\ UNCHANGED <<maxConcurrency, running, queue, completedCount, nextTask, tstate,
                 startCount>>

\* Promise.all resolved: executeAll sorts by index and returns.
ExecuteAllReturn ==
  /\ bState = "active"
  /\ \A i \in 1..bSize : wres[i] # <<>>
  /\ results' = SortByIndex(PromiseAll(wres, bSize))
  /\ bState' = "resolved"
  /\ UNCHANGED <<limVars, bFirst, bSize, bFailFast, bTimeout, wres, completedTasks>>

\* clearQueue(): this.queue.length = 0. The dropped items' promises never settle.
ClearQueue ==
  /\ queue # <<>>
  /\ queue' = <<>>
  /\ tstate' = [t \in Tasks |-> IF tstate[t] = "queued" THEN "dropped" ELSE tstate[t]]
  /\ UNCHANGED <<maxConcurrency, running, completedCount, failedCount, nextTask,
                 startCount, batchVars>>

InitLimiter ==
  /\ maxConcurrency \in 1..MaxConcurrencyBound
  /\ running = 0
  /\ queue = <<>>
  /\ completedCount = 0
  /\ failedCount = 0
  /\ nextTask = 1
  /\ tstate = [t \in Tasks |-> "new"]
  /\ startCount = [t \in Tasks |-> 0]
  /\ bState = "none"
  /\ bFirst = 0
  /\ bSize = 0
  /\ bFailFast = FALSE
  /\ bTimeout = FALSE
  /\ wres = [i \in 1..MaxBatch |-> <<>>]
  /\ completedTasks = 0
  /\ results = <<>>

BatchPriorities == UNION {[1..n -> Priorities] : n \in 0..MaxBatch}

NextLimiter ==
  \/ \E p \in Priorities : Execute(p) /\ UNCHANGED <<poolVars, searchVars, auxVars>>
  \/ \E ff \in BOOLEAN, to \in BOOLEAN, ps \in BatchPriorities :
       ExecuteAll(ff, to, ps) /\ UNCHANGED <<poolVars, searchVars, auxVars>>
  \/ \E t \in Tasks, ok \in BOOLEAN : TaskSettles(t, ok) /\ UNCHANGED <<poolVars, searchVars, auxVars>>
  \/ \E i \in 1..MaxBatch : Timeout(i) /\ UNCHANGED <<poolVars, searchVars, auxVars>>
  \/ ExecuteAllReturn /\ UNCHANGED <<poolVars, searchVars, auxVars>>
  \/ ClearQueue /\ UNCHANGED <<poolVars, searchVars, auxVars>>

(***************************************************************************)
(* BrowserPool (browser-pool.ts)                                           *)
(*                                                                         *)
(* Browsers, contexts and pages are numbered objects.  A process is one    *)
(* asynchronous call in flight: each caller runs createTab() and later the *)
(* tab's release(); process 0 runs prewarmTabs() from a timer.  pc[p] is   *)
(* the await the process is suspended at.                                  *)
(***************************************************************************)
Callers == 1..MaxCallers
Prewarmer == 0
Procs == {Prewarmer} \cup Callers
CallerContextIds == {"default"}
ContextIds == CallerContextIds \cup {"prewarmed"}
NoContext == [key |-> "default", browser |-> 0, state |-> "none"]
NoPage == [context |-> 0, state |-> "none"]
\* a closed page: which context it was of no longer matters
ClosedPage == [context |-> 0, state |-> "closed"]
NoLocals == [browser |-> 0, key |-> "default", context |-> 0, page |-> 0, count |-> 0]

Pool == [singleBrowser |-> singleBrowser, browsers |-> browsers, contexts |-> contexts,
         ctxs |-> ctxs, pages |-> pages, activeTabs |-> activeTabs,
         prewarmedTabs |-> prewarmedTabs, totalTabsCreated |-> totalTabsCreated,
         totalTabsClosed |-> totalTabsClosed, cleanupInterval |-> cleanupInterval,
         pc |-> pc, loc |-> loc, timers |-> timers, sweep |-> sweep]

SetPool(S) ==
  /\ singleBrowser' = S.singleBrowser
  /\ browsers' = S.browsers
  /\ contexts' = S.contexts
  /\ ctxs' = S.ctxs
  /\ pages' = S.pages
  /\ activeTabs' = S.activeTabs
  /\ prewarmedTabs' = S.prewarmedTabs
  /\ totalTabsCreated' = S.totalTabsCreated
  /\ totalTabsClosed' = S.totalTabsClosed
  /\ cleanupInterval' = S.cleanupInterval
  /\ pc' = S.pc
  /\ loc' = S.loc
  /\ timers' = S.timers
  /\ sweep' = S.sweep
  /\ UNCHANGED <<maxTabs, isPrewarmingEnabled>>

\* the objects not created yet; a new object takes the smallest free number
FreeBrowsers(S) == {b \in 1..MaxBrowsers : S.browsers[b] = "none"}
FreeContexts(S) == {x \in 1..MaxContexts : S.ctxs[x] = NoContext}
FreePages(S) == {q \in 1..MaxPages : S.pages[q] = NoPage}
FirstOf(ids) == CHOOSE i \in ids : \A j \in ids : i <= j

\* a context or page that is neither closed nor gone with its browser
IsOpen(o) == o.state = "open"

\* browser.isConnected()
IsConnected(S, b) == S.browsers[b] = "alive"

\* context.close() for the contexts X: their pages close with them
CloseContexts(S, X) ==
  [S EXCEPT !.ctxs = [x \in 1..MaxContexts |->
                        IF x \in X THEN [S.ctxs[x] EXCEPT !.state = "closed"] ELSE S.ctxs[x]],
            !.pages = [q \in 1..MaxPages |->
                        IF S.pages[q].context \in X THEN ClosedPage ELSE S.pages[q]]]

\* the browser process ends (browser.close() or a crash): it is no longer
\* connected and its contexts and pages are gone
EndBrowser(S, b) ==
  [CloseContexts(S, {x \in 1..MaxContexts : S.ctxs[x].browser = b})
     EXCEPT !.browsers[b] = "dead"]

\* an asynchronous call ends (returns or throws): its frame is gone
Return(S, p) == [S EXCEPT !.pc[p] = "idle", !.loc[p] = NoLocals]

\* getOrCreateContext up to its await: a context under the id whose browser
\* is connected is returned (the caller goes on to await newPage()); otherwise
\* the stale entry is deleted and createContextWithState is awaited.
GetOrCreateContext(S, p, b, id) ==
  LET x == S.contexts[id] IN
  IF x # 0 /\ IsConnected(S, S.ctxs[x].browser)
    THEN [S EXCEPT !.pc[p] = "newPage", !.loc[p].browser = 0, !.loc[p].context = x]
    ELSE [S EXCEPT !.contexts[id] = 0, !.pc[p] = "newContext", !.loc[p].browser = b]

\* createTab after `await getSingleBrowser()`: the capacity test, then
\* getOrCreateContext.  prewarmTabs has no capacity test.
AfterBrowser(S, p, b) ==
  IF p # Prewarmer /\ Cardinality(S.activeTabs) >= maxTabs
    THEN [S EXCEPT !.pc[p] = "waitTab", !.loc[p].browser = b]
    ELSE GetOrCreateContext(S, p, b, S.loc[p].key)

\* releaseTab(page) of cleanup(), for every active tab
ReleaseAll(S) ==
  [S EXCEPT !.pages = [q \in 1..MaxPages |->
                         IF q \in S.activeTabs THEN ClosedPage ELSE S.pages[q]],
            !.activeTabs = {},
            !.totalTabsClosed = @ + Cardinality(S.activeTabs)]

\* getSingleBrowser up to its first await.  No browser: createSingleBrowser
\* awaits the launch.  A disconnected browser: createSingleBrowser awaits
\* cleanup(), which stops the timer and releases the active tabs first.
\* A connected browser: it is returned.
GetSingleBrowser(S, p) ==
  IF S.singleBrowser = 0
    THEN [S EXCEPT !.pc[p] = "launching"]
    ELSE IF ~IsConnected(S, S.singleBrowser)
      THEN [ReleaseAll(S) EXCEPT !.cleanupInterval = FALSE, !.pc[p] = "cleanup"]
      ELSE AfterBrowser(S, p, S.singleBrowser)

\* Math.min(2, this.maxTabs)
PrewarmTarget == IF maxTabs < 2 THEN maxTabs ELSE 2

\* replenishPrewarmedTabs(): a 100 ms timer that will call prewarmTabs(needed)
Replenish(S) ==
  LET needed == PrewarmTarget - Len(S.prewarmedTabs) IN
  IF needed > 0 THEN [S EXCEPT !.timers = Append(@, needed)] ELSE S

\* createTab(contextId) up to its first real suspension.  A prewarmed tab is
\* handed out at once (added to activeTabs with no capacity test) and a
\* replenishing timer is set; otherwise the browser is fetched.
CreateTab(c, id) ==
  /\ pc[c] = "idle"
  /\ prewarmedTabs # <<>> => Len(timers) < MaxTimers
  /\ LET S == [Pool EXCEPT !.loc[c].key = id] IN
     IF prewarmedTabs # <<>>
       THEN SetPool(Replenish([S EXCEPT !.prewarmedTabs = Tail(@),
                                        !.activeTabs = @ \cup {Head(prewarmedTabs)},
                                        !.pc[c] = "holding",
                                        !.loc[c].page = Head(prewarmedTabs)]))
       ELSE SetPool(GetSingleBrowser(S, c))

\* cleanup() called by createSingleBrowser completes: the contexts of the map
\* and the browser are closed, the maps are cleared; then the launch starts.
CleanupDone(p) ==
  /\ pc[p] = "cleanup"
  /\ LET S1 == CloseContexts(Pool, {contexts[k] : k \in ContextIds} \ {0})
         S2 == IF singleBrowser # 0 THEN EndBrowser(S1, singleBrowser) ELSE S1
     IN SetPool([S2 EXCEPT !.singleBrowser = 0,
                           !.contexts = [k \in ContextIds |-> 0],
                           !.activeTabs = {},
                           !.pc[p] = "launching"])

\* browserService.createBrowser() resolves: a new browser process runs and is
\* assigned to singleBrowser; getSingleBrowser returns and the caller goes on.
LaunchDone(p) ==
  /\ pc[p] = "launching"
  /\ FreeBrowsers(Pool) # {}
  /\ LET b == FirstOf(FreeBrowsers(Pool)) IN
     SetPool(AfterBrowser([Pool EXCEPT !.browsers[b] = "alive", !.singleBrowser = b], p, b))

\* waitForAvailableTab(): the poll finds activeTabs.size < maxTabs
WaitDone(c) ==
  /\ pc[c] = "waitTab"
  /\ Cardinality(activeTabs) < maxTabs
  /\ SetPool(GetOrCreateContext(Pool, c, loc[c].browser, loc[c].key))

\* createContextWithState resolves (or throws: the browser has gone) and the
\* new context is stored under the id; the caller goes on to newPage().
ContextCreated(p) ==
  /\ pc[p] = "newContext"
  /\ IsConnected(Pool, loc[p].browser) => FreeContexts(Pool) # {}
  /\ IF IsConnected(Pool, loc[p].browser)
       THEN LET x == FirstOf(FreeContexts(Pool)) IN
            SetPool([Pool EXCEPT !.ctxs[x] = [key |-> loc[p].key,
                                              browser |-> loc[p].browser, state |-> "open"],
                                 !.contexts[loc[p].key] = x,
                                 !.pc[p] = "newPage",
                                 !.loc[p].browser = 0,
                                 !.loc[p].context = x])
       ELSE SetPool(Return(Pool, p))

\* createTab: context.newPage() resolves; the page joins activeTabs and the
\* tab is handed to the caller.  On a closed context newPage() throws.
PageCreated(c) ==
  /\ c \in Callers
  /\ pc[c] = "newPage"
  /\ IsOpen(ctxs[loc[c].context]) => FreePages(Pool) # {}
  /\ IF IsOpen(ctxs[loc[c].context])
       THEN LET q == FirstOf(FreePages(Pool)) IN
            SetPool([Pool EXCEPT !.pages[q] = [context |-> loc[c].context, state |-> "open"],
                                 !.activeTabs = @ \cup {q},
                                 !.totalTabsCreated = @ + 1,
                                 !.pc[c] = "holding",
                                 !.loc[c].context = 0,
                                 !.loc[c].page = q])
       ELSE SetPool(Return(Pool, c))

\* prewarmTabs: one turn of the loop; a failing newPage() is caught.
PrewarmPageCreated ==
  /\ pc[Prewarmer] = "newPage"
  /\ IsOpen(ctxs[loc[Prewarmer].context]) => FreePages(Pool) # {}
  /\ LET S1 == IF IsOpen(ctxs[loc[Prewarmer].context])
                 THEN LET q == FirstOf(FreePages(Pool)) IN
                      [Pool EXCEPT !.pages[q] = [context |-> loc[Prewarmer].context,
                                                 state |-> "open"],
                                   !.prewarmedTabs = Append(@, q)]
                 ELSE Pool
     IN IF loc[Prewarmer].count > 1
          THEN SetPool([S1 EXCEPT !.loc[Prewarmer].count = @ - 1])
          ELSE SetPool(Return(S1, Prewarmer))

\* release() -> releaseTab(page): an open page is closed (await), a closed
\* one is dropped from activeTabs at once.
ReleaseStart(c) ==
  /\ pc[c] = "holding"
  /\ IF IsOpen(pages[loc[c].page])
       THEN SetPool([Pool EXCEPT !.pages[loc[c].page] = ClosedPage, !.pc[c] = "releasing"])
       ELSE SetPool(Return([Pool EXCEPT !.activeTabs = @ \ {loc[c].page},
                                        !.totalTabsClosed = @ + 1], c))

\* releaseTab after `await page.close()`
ReleaseDone(c) ==
  /\ pc[c] = "releasing"
  /\ SetPool(Return([Pool EXCEPT !.activeTabs = @ \ {loc[c].page},
                                 !.totalTabsClosed = @ + 1], c))

\* a prewarming timer fires: prewarmTabs(count) runs up to its first await
TimerFires ==
  /\ timers # <<>>
  /\ pc[Prewarmer] = "idle"
  /\ SetPool(GetSingleBrowser([Pool EXCEPT !.timers = Tail(@),
                                           !.loc[Prewarmer].key = "prewarmed",
                                           !.loc[Prewarmer].count = Head(timers)],
                              Prewarmer))

\* context.pages().length === 0
IsEmpty(x) == \A q \in 1..MaxPages : ~(pages[q].context = x /\ IsOpen(pages[q]))

\* cleanupIdleContexts() up to its await: the contexts to clean are chosen
ContextsToClean ==
  {k \in ContextIds :
     /\ contexts[k] # 0
     /\ IsEmpty(contexts[k])
     /\ \/ k # "default"
        \/ Cardinality({j \in ContextIds : contexts[j] # 0}) > maxTabs}

SweepStart ==
  /\ cleanupInterval
  /\ \A k \in ContextIds : sweep[k] = 0
  /\ ContextsToClean # {}
  /\ SetPool([Pool EXCEPT !.sweep = [k \in ContextIds |->
                                       IF k \in ContextsToClean THEN contexts[k] ELSE 0]])

\* cleanupIdleContexts(): one chosen context is saved, closed and deleted
SweepClose(k) ==
  /\ sweep[k] # 0
  /\ SetPool([CloseContexts(Pool, {sweep[k]}) EXCEPT !.contexts[k] = 0, !.sweep[k] = 0])

\* the pool's browser process dies (crash, kill): it reports disconnected
BrowserDisconnects(b) ==
  /\ b = singleBrowser
  /\ browsers[b] = "alive"
  /\ SetPool(EndBrowser(Pool, b))

\* the pool not constructed: the state the other specifications keep
InitPoolIdle ==
  /\ maxTabs = 1
  /\ isPrewarmingEnabled = FALSE
  /\ singleBrowser = 0
  /\ browsers = [b \in 1..MaxBrowsers |-> "none"]
  /\ contexts = [k \in ContextIds |-> 0]
  /\ ctxs = [x \in 1..MaxContexts |-> NoContext]
  /\ pages = [q \in 1..MaxPages |-> NoPage]
  /\ activeTabs = {}
  /\ prewarmedTabs = <<>>
  /\ totalTabsCreated = 0
  /\ totalTabsClosed = 0
  /\ cleanupInterval = FALSE
  /\ pc = [p \in Procs |-> "idle"]
  /\ loc = [p \in Procs |-> NoLocals]
  /\ timers = <<>>
  /\ sweep = [k \in ContextIds |-> 0]

\* new BrowserPool(maxTabs, ..., {enablePrewarming}): the cleanup timer runs
\* and, with prewarming, a timer for prewarmTabs(min(2, maxTabs)) is set
InitPool ==
  /\ maxTabs \in 1..MaxTabsBound
  /\ isPrewarmingEnabled \in BOOLEAN
  /\ singleBrowser = 0
  /\ browsers = [b \in 1..MaxBrowsers |-> "none"]
  /\ contexts = [k \in ContextIds |-> 0]
  /\ ctxs = [x \in 1..MaxContexts |-> NoContext]
  /\ pages = [q \in 1..MaxPages |-> NoPage]
  /\ activeTabs = {}
  /\ prewarmedTabs = <<>>
  /\ totalTabsCreated = 0
  /\ totalTabsClosed = 0
  /\ cleanupInterval = TRUE
  /\ pc = [p \in Procs |-> "idle"]
  /\ loc = [p \in Procs |-> NoLocals]
  /\ timers = IF isPrewarmingEnabled THEN <<PrewarmTarget>> ELSE <<>>
  /\ sweep = [k \in ContextIds |-> 0]

NextPool ==
  \/ \E c \in Callers, id \in CallerContextIds : CreateTab(c, id) /\ UNCHANGED <<limVars, batchVars, searchVars, auxVars>>
  \/ \E p \in Procs : CleanupDone(p) /\ UNCHANGED <<limVars, batchVars, searchVars, auxVars>>
  \/ \E p \in Procs : LaunchDone(p) /\ UNCHANGED <<limVars, batchVars, searchVars, auxVars>>
  \/ \E c \in Callers : WaitDone(c) /\ UNCHANGED <<limVars, batchVars, searchVars, auxVars>>
  \/ \E p \in Procs : ContextCreated(p) /\ UNCHANGED <<limVars, batchVars, searchVars, auxVars>>
  \/ \E c \in Callers : PageCreated(c) /\ UNCHANGED <<limVars, batchVars, searchVars, auxVars>>
  \/ PrewarmPageCreated /\ UNCHANGED <<limVars, batchVars, searchVars, auxVars>>
  \/ \E c \in Callers : ReleaseStart(c) /\ UNCHANGED <<limVars, batchVars, searchVars, auxVars>>
  \/ \E c \in Callers : ReleaseDone(c) /\ UNCHANGED <<limVars, batchVars, searchVars, auxVars>>
  \/ TimerFires /\ UNCHANGED <<limVars, batchVars, searchVars, auxVars>>
  \/ SweepStart /\ UNCHANGED <<limVars, batchVars, searchVars, auxVars>>
  \/ \E k \in ContextIds : SweepClose(k) /\ UNCHANGED <<limVars, batchVars, searchVars, auxVars>>
  \/ \E b \in 1..MaxBrowsers : BrowserDisconnects(b) /\ UNCHANGED <<limVars, batchVars, searchVars, auxVars>>

(***************************************************************************)
(* DuckDuckGoSearcher (src/searcher.ts): endpoint failover and retry       *)
(*                                                                         *)
(* One search() call is in flight at a time.  The call runs up to          *)
(* MaxRetries attempts; an attempt is one sweep of performSingleSearch     *)
(* over the endpoints, starting at the shared cursor currentDomainIndex.   *)
(* The response-time statistics are not computed: what                     *)
(* performAdaptiveAdjustments does to the cursor is an input of the        *)
(* response.  sweepStart, sweepLog, sweepEnd and requests record what the  *)
(* call did.                                                               *)
(***************************************************************************)
Domains == 0..(NumDomains - 1)
\* why a request to an endpoint ends
Outcomes == {"ok", "CAPTCHA_DETECTED", "EARLY_TIMEOUT", "RATE_LIMITED", "TIMEOUT",
             "API_ERROR_4xx", "API_ERROR_5xx", "BLOCKED", "NETWORK_ERROR"}
\* what performAdaptiveAdjustments does on a recorded response
Adjustments == {"none", "switch", "reset", "switchReset"}

Srch == [currentDomainIndex |-> currentDomainIndex, domainSwitches |-> domainSwitches,
         fallbackToBrowser |-> fallbackToBrowser, sPc |-> sPc, attempt |-> attempt,
         attempts |-> attempts, attemptedDomains |-> attemptedDomains,
         lastError |-> lastError, sweepStart |-> sweepStart, sweepLog |-> sweepLog,
         sweepEnd |-> sweepEnd, requests |-> requests, escalations |-> escalations,
         raised |-> raised]

SetSrch(S) ==
  /\ currentDomainIndex' = S.currentDomainIndex
  /\ domainSwitches' = S.domainSwitches
  /\ fallbackToBrowser' = S.fallbackToBrowser
  /\ sPc' = S.sPc
  /\ attempt' = S.attempt
  /\ attempts' = S.attempts
  /\ attemptedDomains' = S.attemptedDomains
  /\ lastError' = S.lastError
  /\ sweepStart' = S.sweepStart
  /\ sweepLog' = S.sweepLog
  /\ sweepEnd' = S.sweepEnd
  /\ requests' = S.requests
  /\ escalations' = S.escalations
  /\ raised' = S.raised
  /\ UNCHANGED hasBrowserPool

\* a cursor that stays where it is
GetNextDomainStuck(i) == i

\* getNextDomain(): the cursor moves one endpoint on, circularly
GetNextDomain(i) == (i + 1) % NumDomains

\* handleDomainFailure(): getNextDomain() is called once, in the log record
HandleDomainFailure(S) ==
  [S EXCEPT !.currentDomainIndex = GetNextDomain(S.currentDomainIndex)]

\* new SearchError(message, code, statusCode): the fields of the error object
SearchError(code) ==
  [code |-> IF code \in {"API_ERROR_4xx", "API_ERROR_5xx"} THEN "API_ERROR" ELSE code,
   statusCode |-> CASE code = "API_ERROR_4xx" -> "4xx"
                    [] code = "API_ERROR_5xx" -> "5xx"
                    [] code = "RATE_LIMITED" -> "429"
                    [] OTHER -> "undefined"]
NoError == [code |-> "none", statusCode |-> "undefined"]

\* search(): the retry loop gives up and throws lastError, or
\* MAX_RETRIES_EXCEEDED when there is none
Fail(S) ==
  [S EXCEPT !.sPc = "failed",
            !.raised = SearchError(IF S.lastError = "none" THEN "MAX_RETRIES_EXCEEDED"
                                                           ELSE S.lastError)]

\* a retry loop without its bound
ContinueAlways(S) == [S EXCEPT !.sPc = "delay"]

\* search(): `continue` - a delay before the next attempt, none after the last
Continue(S) == IF S.attempt < MaxRetries THEN [S EXCEPT !.sPc = "delay"] ELSE Fail(S)

\* search(): the catch block for an error of the given code thrown by
\* performSingleSearch
SearchCatch(S, code) ==
  LET S1 == [S EXCEPT !.lastError = code] IN
  CASE code = "CAPTCHA_DETECTED" ->
         IF hasBrowserPool /\ ~S.fallbackToBrowser
           THEN [S1 EXCEPT !.fallbackToBrowser = TRUE, !.escalations = @ + 1,
                           !.sPc = "browser"]
           ELSE Continue(S1)
    [] code \in {"RATE_LIMITED", "TIMEOUT", "EARLY_TIMEOUT"} -> Continue(S1)
    [] code = "API_ERROR_4xx" -> Fail(S1)
    [] OTHER -> IF S.attempt = MaxRetries THEN Fail(S1) ELSE [S1 EXCEPT !.sPc = "delay"]

\* performSingleSearch: throw lastError || new SearchError(.., "ALL_DOMAINS_FAILED")
SweepError(S) == IF S.lastError = "none" THEN "ALL_DOMAINS_FAILED" ELSE S.lastError

\* performSingleSearch: the for loop from its test to the next request.  An
\* endpoint already attempted costs a turn; a fresh one is requested; after
\* domains.length turns the last error is thrown.
RECURSIVE SweepLoop(_)
SweepLoop(S) ==
  IF S.attempts >= NumDomains
    THEN SearchCatch([S EXCEPT !.sweepEnd = "allFailed"], SweepError(S))
    ELSE IF S.currentDomainIndex \in S.attemptedDomains
      THEN SweepLoop([S EXCEPT !.currentDomainIndex = GetNextDomain(@),
                               !.attempts = @ + 1])
      ELSE [S EXCEPT !.attemptedDomains = @ \cup {S.currentDomainIndex},
                     !.sweepLog = Append(@, S.currentDomainIndex),
                     !.requests[S.currentDomainIndex] = @ + 1,
                     !.sPc = "request"]

\* performSingleSearch from its start: a fresh attemptedDomains set
BeginSweep(S) ==
  SweepLoop([S EXCEPT !.attempts = 0, !.attemptedDomains = {}, !.lastError = "none",
                      !.sweepStart = S.currentDomainIndex, !.sweepLog = <<>>,
                      !.sweepEnd = "running"])

\* performAdaptiveAdjustments: the cursor moves on when the trend is
\* degrading (at most 2 switches); the counter is reduced every 50 requests
PerformAdaptiveAdjustments(S, adj) ==
  LET S1 == IF adj \in {"switch", "switchReset"} /\ S.domainSwitches < 2
              THEN [S EXCEPT !.currentDomainIndex = GetNextDomain(@),
                             !.domainSwitches = @ + 1]
              ELSE S
  IN IF adj \in {"reset", "switchReset"} /\ S1.domainSwitches > 0
       THEN [S1 EXCEPT !.domainSwitches = @ - 1]
       ELSE S1

\* search(query): a new call; its first attempt starts
Search ==
  /\ sPc \in {"idle", "returned", "failed"}
  /\ SetSrch(BeginSweep([Srch EXCEPT !.attempt = 1,
                                     !.requests = [d \in Domains |-> 0],
                                     !.escalations = 0,
                                     !.raised = NoError]))

\* the request of performSingleDomainSearch ends.  A good response is
\* recorded and returned; EARLY_TIMEOUT and CAPTCHA_DETECTED leave the sweep;
\* any other failure moves the cursor and the loop goes on.
Response(o, adj) ==
  /\ sPc = "request"
  /\ IF o = "ok"
       THEN SetSrch([PerformAdaptiveAdjustments(Srch, adj)
                       EXCEPT !.sweepEnd = "ok", !.sPc = "returned"])
       ELSE IF o \in {"EARLY_TIMEOUT", "CAPTCHA_DETECTED"}
         THEN SetSrch(SearchCatch([Srch EXCEPT !.sweepEnd = "aborted"], o))
         ELSE SetSrch(SweepLoop([HandleDomainFailure(Srch)
                                   EXCEPT !.lastError = o, !.attempts = @ + 1]))

\* search(): the delay before the next attempt is over
DelayDone ==
  /\ sPc = "delay"
  /\ SetSrch(BeginSweep([Srch EXCEPT !.attempt = @ + 1]))

\* search(): handleCaptcha() and performBrowserSearch() end; on a failure
\* the flag is cleared and the retry loop continues
BrowserDone(ok) ==
  /\ sPc = "browser"
  /\ IF ok
       THEN SetSrch([Srch EXCEPT !.sPc = "returned"])
       ELSE SetSrch(Continue([Srch EXCEPT !.fallbackToBrowser = FALSE]))

\* no searcher in use: the state the other specifications keep
InitSearchIdle ==
  /\ currentDomainIndex = 0
  /\ domainSwitches = 0
  /\ hasBrowserPool = FALSE
  /\ fallbackToBrowser = FALSE
  /\ sPc = "idle"
  /\ attempt = 0
  /\ attempts = 0
  /\ attemptedDomains = {}
  /\ lastError = "none"
  /\ sweepStart = 0
  /\ sweepLog = <<>>
  /\ sweepEnd = "none"
  /\ requests = [d \in Domains |-> 0]
  /\ escalations = 0
  /\ raised = NoError

\* new DuckDuckGoSearcher(logger, browserPool?): a random first endpoint
InitSearch ==
  /\ currentDomainIndex \in Domains
  /\ domainSwitches = 0
  /\ hasBrowserPool \in BOOLEAN
  /\ fallbackToBrowser = FALSE
  /\ sPc = "idle"
  /\ attempt = 0
  /\ attempts = 0
  /\ attemptedDomains = {}
  /\ lastError = "none"
  /\ sweepStart = 0
  /\ sweepLog = <<>>
  /\ sweepEnd = "none"
  /\ requests = [d \in Domains |-> 0]
  /\ escalations = 0
  /\ raised = NoError

NextSearch ==
  \/ Search /\ UNCHANGED <<limVars, batchVars, poolVars, auxVars>>
  \/ \E o \in Outcomes, adj \in Adjustments :
       Response(o, adj) /\ UNCHANGED <<limVars, batchVars, poolVars, auxVars>>
  \/ DelayDone /\ UNCHANGED <<limVars, batchVars, poolVars, auxVars>>
  \/ \E ok \in BOOLEAN : BrowserDone(ok) /\ UNCHANGED <<limVars, batchVars, poolVars, auxVars>>

\* ---- WebpageFetcher: fetchWebpage, handleErrorWithRetry, retryWithOptions ----

\* the retryStrategies array: clear cookies, new User-Agent, SPA mode
NumStrategies == 3

\* what a request by fetchHtml can be answered with
FetchAnswers == {"ok", "denied", "error"}

\* a fetchWebpage call: where it waits, the retry strategy it is in (0 before
\* any), and the useSPA option it was called with
Frame(at, strategy, useSPA) == [pc |-> at, strategy |-> strategy, useSPA |-> useSPA]

Top(st) == st[Len(st)]

SetTop(st, f) == [st EXCEPT ![Len(st)] = f]

Pop(st) == SubSeq(st, 1, Len(st) - 1)

\* handleErrorWithRetry: the loop goes on to the strategy after k, each one
\* after a delay; after the last one it returns null
NextStrategy(st, k) ==
  IF k < NumStrategies
  THEN [stack |-> SetTop(st, [Top(st) EXCEPT !.pc = "retryDelay", !.strategy = k + 1]),
        result |-> "none"]
  ELSE [stack |-> st, result |-> "failure"]

RECURSIVE FetchReturn(_, _)
RECURSIVE StrategyFailed(_)
\* the innermost call returns r to retryWithOptions in its caller: a
\* successful result is returned by every caller in turn; a failed one ends
\* the caller's current strategy
FetchReturn(st, r) ==
  LET rest == Pop(st) IN
  IF rest = <<>> THEN [stack |-> rest, result |-> r]
  ELSE IF r = "success" THEN FetchReturn(rest, r)
  ELSE StrategyFailed(rest)

\* the current strategy of the innermost call ended without a successful
\* result: the next one follows, and out of strategies the call returns
\* success: false
StrategyFailed(st) ==
  LET n == NextStrategy(st, Top(st).strategy) IN
  IF n.result = "none" THEN n ELSE FetchReturn(st, "failure")

SetFetch(n) ==
  /\ fstack' = n.stack
  /\ fetchResult' = n.result

\* fetchWebpage(options): validateUrl, the anti-crawler delay and robots.txt
\* pass, and fetchHtml sends the request
FetchWebpage(useSPA) ==
  /\ fstack = <<>>
  /\ fstack' = <<Frame("fetch", 0, useSPA)>>
  /\ fetchRequests' = 0
  /\ allDenied' = TRUE
  /\ fetchResult' = "none"

\* fetchHtml's request is answered: a page is returned as the result; a 403
\* enters handleErrorWithRetry, which waits before its first strategy; for
\* any other error handleErrorWithRetry returns null and the call returns
\* success: false
FetchResponse(a) ==
  /\ fstack # <<>>
  /\ Top(fstack).pc = "fetch"
  /\ fetchRequests' = fetchRequests + 1
  /\ allDenied' = (allDenied /\ a = "denied")
  /\ CASE a = "ok" -> SetFetch(FetchReturn(fstack, "success"))
       [] a = "denied" -> SetFetch(NextStrategy(fstack, 0))
       [] OTHER -> SetFetch(FetchReturn(fstack, "failure"))

\* the delay before a strategy ends and its action runs: strategies 1 and 2
\* call fetchWebpage again through retryWithOptions (strategy 2 unless
\* resetFingerprint throws), strategy 3 calls fetchSPAWebpage unless the
\* options already ask for SPA mode
RetryDelayDone(fingerprintOk) ==
  /\ fstack # <<>>
  /\ Top(fstack).pc = "retryDelay"
  /\ LET k == Top(fstack).strategy
         calling == SetTop(fstack, [Top(fstack) EXCEPT !.pc = "call"]) IN
     CASE k = 1 \/ (k = 2 /\ fingerprintOk) ->
            /\ Len(fstack) < MaxFetchDepth
            /\ SetFetch([stack |-> Append(calling, Frame("fetch", 0, Top(fstack).useSPA)),
                         result |-> "none"])
       [] k = 2 /\ ~fingerprintOk -> SetFetch(StrategyFailed(fstack))
       [] OTHER ->
            IF Top(fstack).useSPA
            THEN SetFetch(StrategyFailed(fstack))
            ELSE SetFetch([stack |-> SetTop(fstack, [Top(fstack) EXCEPT !.pc = "spa"]),
                           result |-> "none"])
  /\ UNCHANGED <<fetchRequests, allDenied>>

\* fetchSPAWebpage: the Playwright bridge returns a result, or it throws and
\* fetchSPAWebpage falls back to fetchWebpage without useSPA
SpaDone(r) ==
  /\ fstack # <<>>
  /\ Top(fstack).pc = "spa"
  /\ allDenied' = (allDenied /\ r # "success")
  /\ CASE r = "throws" ->
            /\ Len(fstack) < MaxFetchDepth
            /\ SetFetch([stack |-> Append(SetTop(fstack, [Top(fstack) EXCEPT !.pc = "call"]),
                                          Frame("fetch", 0, FALSE)),
                         result |-> "none"])
       [] r = "success" -> SetFetch(FetchReturn(fstack, "success"))
       [] OTHER -> SetFetch(StrategyFailed(fstack))
  /\ UNCHANGED fetchRequests

InitFetchIdle ==
  /\ fstack = <<>>
  /\ fetchRequests = 0
  /\ allDenied = TRUE
  /\ fetchResult = "none"

NextFetch ==
  \/ \E u \in BOOLEAN : FetchWebpage(u) /\ UNCHANGED fetchFrame
  \/ \E a \in FetchAnswers : FetchResponse(a) /\ UNCHANGED fetchFrame
  \/ \E ok \in BOOLEAN : RetryDelayDone(ok) /\ UNCHANGED fetchFrame
  \/ \E r \in {"success", "failure", "throws"} : SpaDone(r) /\ UNCHANGED fetchFrame

\* ---- BrowserPool.cleanup() as shutdown: each close may fail ----

NoCleanup == [pc |-> "idle",
              tabs |-> [q \in 1..MaxPages |-> "none"],
              ctxs |-> [x \in 1..MaxContexts |-> "none"],
              saved |-> [x \in 1..MaxContexts |-> "none"],
              browser |-> "none"]

\* the pool and the cleanup() call, as one value
Cl == [pool |-> Pool, call |-> cleanupCall]

SetCl(W) ==
  /\ SetPool(W.pool)
  /\ cleanupCall' = W.call
  /\ UNCHANGED enableStatePersistence

\* a rejection that nothing catches would end cleanup() here
ReleaseTabRejects(ok) == IF ok THEN "resolved" ELSE "rejected"

\* releaseTab(page).catch(...): the try/catch of releaseTab and the catch of
\* cleanup() make the promise resolve whether page.close() succeeded or not
ReleaseTabSettles(ok) == "resolved"

\* cleanup(): the last statements clear the handle and both maps
FinishCleanup(W) ==
  [W EXCEPT !.pool.singleBrowser = 0,
            !.pool.contexts = [k \in ContextIds |-> 0],
            !.pool.activeTabs = {},
            !.call.pc = "done"]

\* cleanup(): `if (this.singleBrowser)` awaits browser.close()
CloseBrowserStep(W) ==
  IF W.pool.singleBrowser # 0
    THEN [W EXCEPT !.call.pc = "browser", !.call.browser = "pending"]
    ELSE FinishCleanup(W)

\* cleanup(): for every entry of this.contexts, saveContextState (a no-op
\* without persistence) and then context.close()
CloseContextsStep(W) ==
  LET X == {W.pool.contexts[k] : k \in ContextIds} \ {0} IN
  IF X = {} THEN CloseBrowserStep(W)
  ELSE [W EXCEPT !.call.pc = "contexts",
                 !.call.ctxs = [x \in 1..MaxContexts |->
                                  IF x \notin X THEN "none"
                                  ELSE IF enableStatePersistence THEN "save" ELSE "close"]]

\* cleanup() up to its first await: the sweep timer is stopped and
\* releaseTab starts for every active tab; a page already closed is dropped
\* from activeTabs at once, an open one awaits page.close()
ReleaseTabsStep(W) ==
  LET open == {q \in W.pool.activeTabs : IsOpen(W.pool.pages[q])}
      closed == W.pool.activeTabs \ open
      W1 == [W EXCEPT !.pool.cleanupInterval = FALSE,
                      !.pool.activeTabs = @ \ closed,
                      !.pool.totalTabsClosed = @ + Cardinality(closed),
                      !.call.tabs = [q \in 1..MaxPages |->
                                       IF q \in open THEN "pending"
                                       ELSE IF q \in closed THEN "dropped" ELSE "none"]]
  IN IF open = {} THEN CloseContextsStep(W1) ELSE [W1 EXCEPT !.call.pc = "tabs"]

\* cleanup() is called
Cleanup ==
  /\ cleanupCall.pc = "idle"
  /\ SetCl(ReleaseTabsStep(Cl))

\* page.close() of releaseTab settles; after the last one Promise.all
\* resolves and the contexts follow
TabClosed(q, ok) ==
  /\ cleanupCall.pc = "tabs"
  /\ cleanupCall.tabs[q] = "pending"
  /\ LET W1 == IF ok
                 THEN [Cl EXCEPT !.pool.pages[q] = ClosedPage,
                                 !.pool.activeTabs = @ \ {q},
                                 !.pool.totalTabsClosed = @ + 1,
                                 !.call.tabs[q] = "closed"]
                 ELSE [Cl EXCEPT !.call.tabs[q] = "failed"]
     IN IF ReleaseTabSettles(ok) = "rejected"
          THEN SetCl([W1 EXCEPT !.call.pc = "thrown"])
          ELSE IF \A r \in 1..MaxPages : W1.call.tabs[r] # "pending"
            THEN SetCl(CloseContextsStep(W1))
            ELSE SetCl(W1)

\* saveContextState settles: its own try/catch swallows a failure, and
\* context.close() is awaited next
ContextSaved(x, ok) ==
  /\ cleanupCall.pc = "contexts"
  /\ cleanupCall.ctxs[x] = "save"
  /\ SetCl([Cl EXCEPT !.call.saved[x] = IF ok THEN "saved" ELSE "failed",
                      !.call.ctxs[x] = "close"])

\* context.close() settles; after the last context Promise.all resolves and
\* the browser follows
ContextClosed(x, ok) ==
  /\ cleanupCall.pc = "contexts"
  /\ cleanupCall.ctxs[x] = "close"
  /\ LET W1 == IF ok
                 THEN [Cl EXCEPT !.pool = CloseContexts(@, {x}), !.call.ctxs[x] = "closed"]
                 ELSE [Cl EXCEPT !.call.ctxs[x] = "failed"]
     IN IF \A y \in 1..MaxContexts : W1.call.ctxs[y] \notin {"save", "close"}
          THEN SetCl(CloseBrowserStep(W1))
          ELSE SetCl(W1)

\* browser.close() settles; a failure is logged and the state is cleared
BrowserClosed(ok) ==
  /\ cleanupCall.pc = "browser"
  /\ IF ok
       THEN SetCl(FinishCleanup([Cl EXCEPT !.pool = EndBrowser(@, singleBrowser),
                                           !.call.browser = "closed"]))
       ELSE SetCl(FinishCleanup([Cl EXCEPT !.call.browser = "failed"]))

InitCleanupIdle ==
  /\ cleanupCall = NoCleanup
  /\ enableStatePersistence = TRUE

\* a pool at rest when cleanup() is called: no browser yet, or a browser
\* (connected or crashed) with some of its contexts and tabs handed out to
\* callers, some of which closed their page themselves
InitPoolAtRest ==
  /\ maxTabs \in 1..MaxTabsBound
  /\ isPrewarmingEnabled \in BOOLEAN
  /\ \E hasBrowser, crashed \in BOOLEAN, K \in SUBSET ContextIds,
        A \in SUBSET Callers, own \in SUBSET Callers :
       /\ ~hasBrowser => K = {} /\ ~crashed
       /\ "prewarmed" \in K => isPrewarmingEnabled
       /\ A # {} => K # {}
       /\ own \subseteq A
       /\ A \subseteq 1..MaxPages
       /\ \E cx \in [A -> {1, 2}] :
            /\ \A c \in A : cx[c] = 1 => "default" \in K
            /\ \A c \in A : cx[c] = 2 => "prewarmed" \in K
            /\ LET S0 == [singleBrowser |-> IF hasBrowser THEN 1 ELSE 0,
                          browsers |-> [b \in 1..MaxBrowsers |->
                                          IF hasBrowser /\ b = 1 THEN "alive" ELSE "none"],
                          contexts |-> [k \in ContextIds |->
                                          IF k \notin K THEN 0
                                          ELSE IF k = "default" THEN 1 ELSE 2],
                          ctxs |-> [x \in 1..MaxContexts |->
                                      IF x = 1 /\ "default" \in K
                                        THEN [key |-> "default", browser |-> 1, state |-> "open"]
                                      ELSE IF x = 2 /\ "prewarmed" \in K
                                        THEN [key |-> "prewarmed", browser |-> 1, state |-> "open"]
                                      ELSE NoContext],
                          pages |-> [q \in 1..MaxPages |->
                                       IF q \notin A THEN NoPage
                                       ELSE IF q \in own THEN ClosedPage
                                       ELSE [context |-> cx[q], state |-> "open"]]]
                     S == IF crashed THEN EndBrowser(S0, 1) ELSE S0
               IN /\ singleBrowser = S.singleBrowser
                  /\ browsers = S.browsers
                  /\ contexts = S.contexts
                  /\ ctxs = S.ctxs
                  /\ pages = S.pages
                  /\ activeTabs = A
                  /\ totalTabsCreated = Cardinality(A)
                  /\ pc = [p \in Procs |-> IF p \in A THEN "holding" ELSE "idle"]
                  /\ loc = [p \in Procs |-> IF p \in A THEN [NoLocals EXCEPT !.page = p]
                                                         ELSE NoLocals]
  /\ prewarmedTabs = <<>>
  /\ totalTabsClosed = 0
  /\ cleanupInterval = TRUE
  /\ timers = <<>>
  /\ sweep = [k \in ContextIds |-> 0]

InitShutdown ==
  /\ cleanupCall = NoCleanup
  /\ enableStatePersistence \in BOOLEAN
  /\ InitPoolAtRest

NextShutdown ==
  \/ Cleanup /\ UNCHANGED cleanupFrame
  \/ \E q \in 1..MaxPages, ok \in BOOLEAN : TabClosed(q, ok) /\ UNCHANGED cleanupFrame
  \/ \E x \in 1..MaxContexts, ok \in BOOLEAN : ContextSaved(x, ok) /\ UNCHANGED cleanupFrame
  \/ \E x \in 1..MaxContexts, ok \in BOOLEAN : ContextClosed(x, ok) /\ UNCHANGED cleanupFrame
  \/ \E ok \in BOOLEAN : BrowserClosed(ok) /\ UNCHANGED cleanupFrame

\* ---- DuckDuckGoSearcher.batchSearch / executeSingleSearch ----

\* a query is empty or not
Queries == {"", "q"}

QueryLists == UNION {[1..n -> Queries] : n \in 0..MaxBatch}

\* a bug: every result is tagged with index 0
ExecuteSingleSearchNoIndex(query, found, index) ==
  [query |-> query, success |-> found, error |-> IF found THEN "none" ELSE "search",
   index |-> 0]

\* executeSingleSearch(query, options, index): the results of search(), or
\* the message of the error it threw, with the index passed in
ExecuteSingleSearch(query, found, index) ==
  [query |-> query, success |-> found, error |-> IF found THEN "none" ELSE "search",
   index |-> index]

\* results.map: the value of a successful task is passed on; for a task that
\* failed or timed out in executeAll a failure entry is built from the
\* position j (1-based here, 0-based in the entry)
BatchResult(r, j) ==
  IF r.success /\ singleResults[r.task - bFirst] # <<>>
    THEN singleResults[r.task - bFirst][1]
    ELSE [query |-> queries[j], success |-> FALSE, error |-> r.error, index |-> j - 1]

\* batchSearch(queries) up to `await batchLimiter.executeAll(...)`: one task
\* per query, all of priority normal, failFast false and a timeout
BatchSearch(qs) ==
  /\ bsPc = "idle"
  /\ ExecuteAll(FALSE, TRUE, [i \in 1..Len(qs) |-> "normal"])
  /\ bsPc' = "running"
  /\ queries' = qs
  /\ UNCHANGED <<singleResults, batchResults>>

\* the task of running query t ends: its delays are over and
\* executeSingleSearch has returned; search() throws for an empty query
SingleSearchDone(t, found) ==
  /\ bsPc # "idle"
  /\ InBatch(t)
  /\ queries[t - bFirst] = "" => ~found
  /\ TaskSettles(t, TRUE)
  /\ singleResults' = [singleResults EXCEPT ![t - bFirst] =
                         <<ExecuteSingleSearch(queries[t - bFirst], found, t - bFirst - 1)>>]
  /\ UNCHANGED <<bsPc, queries, batchResults>>

\* executeAll's timer for position i fires first
BatchTimeout(i) ==
  /\ bsPc = "running"
  /\ Timeout(i)
  /\ UNCHANGED bsVars

\* executeAll settles and batchSearch maps its results, or rethrows
BatchSearchSettles ==
  /\ bsPc = "running"
  /\ IF bState = "rejected"
       THEN /\ bsPc' = "rejected"
            /\ UNCHANGED <<limVars, batchVars, batchResults>>
       ELSE /\ ExecuteAllReturn
            /\ bsPc' = "resolved"
            /\ batchResults' = [j \in 1..Len(results') |-> BatchResult(results'[j], j)]
  /\ UNCHANGED <<queries, singleResults>>

InitBatchSearchIdle ==
  /\ bsPc = "idle"
  /\ queries = <<>>
  /\ singleResults = [i \in 1..MaxBatch |-> <<>>]
  /\ batchResults = <<>>

NextBatchSearch ==
  \/ \E qs \in QueryLists : BatchSearch(qs) /\ UNCHANGED bsFrame
  \/ \E t \in Tasks, found \in BOOLEAN : SingleSearchDone(t, found) /\ UNCHANGED bsFrame
  \/ \E i \in 1..MaxBatch : BatchTimeout(i) /\ UNCHANGED bsFrame
  \/ BatchSearchSettles /\ UNCHANGED bsFrame

\* ---- RateLimiter (rate-limiter.ts) ----

\* the window of checkLimit, in ms
Window == 1000

\* the clock moves by half a window, by one ms less than a window, or by
\* a window
ClockSteps == {Window \div 2, Window - 1, Window}

\* a bug: a request expires one ms early
IsRecentEarly(t, time) == t - time < Window - 1

\* the filter of checkLimit: (time) => now - time < 1000
IsRecent(t, time) == t - time < Window

\* this.requests.filter(...)
Filter(times, t) == SelectSeq(times, LAMBDA time : IsRecent(t, time))

\* Math.min(...this.requests)
Oldest(times) == CHOOSE m \in {times[i] : i \in 1..Len(times)} :
                   \A i \in 1..Len(times) : m <= times[i]

\* Math.min() of no numbers, and what 1000 - (now - Infinity) and its ceiling are
Infinity == 1000000000

\* Math.ceil(waitTime / 1000) for waitTime > 0
CeilSeconds(ms) == (ms + Window - 1) \div Window

NoCheck == [at |-> 0, full |-> FALSE, outcome |-> "none", retryAfter |-> 0]

\* the accepted calls of the window that ends at t
AcceptedInWindow(t) == {i \in 1..Len(accepted) : t - accepted[i] < Window /\ accepted[i] <= t}

\* checkLimit(): the body has no await, so a call runs as one step and calls
\* issued together run one after the other at the same time
CheckLimit ==
  /\ Len(accepted) < MaxChecks
  /\ LET kept == Filter(requestTimes, now)
         waitTime == IF kept = <<>> THEN Infinity ELSE Window - (now - Oldest(kept))
         full == Cardinality(AcceptedInWindow(now)) >= requestsPerSecond
     IN IF Len(kept) >= requestsPerSecond /\ waitTime > 0
          THEN /\ requestTimes' = kept
               /\ lastCheck' = [at |-> now, full |-> full, outcome |-> "RateLimitError",
                                 retryAfter |-> IF kept = <<>> THEN Infinity
                                                ELSE CeilSeconds(waitTime)]
               /\ UNCHANGED accepted
          ELSE /\ requestTimes' = Append(kept, now)
               /\ accepted' = Append(accepted, now)
               /\ lastCheck' = [at |-> now, full |-> full, outcome |-> "accepted",
                                 retryAfter |-> 0]
  /\ UNCHANGED <<requestsPerSecond, now>>

\* time passes
Advance(d) ==
  /\ now + d <= MaxClock
  /\ now' = now + d
  /\ UNCHANGED <<requestsPerSecond, requestTimes, accepted, lastCheck>>

InitRateLimiterIdle ==
  /\ requestsPerSecond = 1
  /\ requestTimes = <<>>
  /\ now = 0
  /\ accepted = <<>>
  /\ lastCheck = NoCheck

\* new RateLimiter({requestsPerSecond}): validateConfig has passed
InitRateLimiter ==
  /\ requestsPerSecond \in 1..MaxRequestsPerSecond
  /\ requestTimes = <<>>
  /\ now = 0
  /\ accepted = <<>>
  /\ lastCheck = NoCheck

NextRateLimiter ==
  \/ CheckLimit /\ UNCHANGED rlFrame
  \/ \E d \in ClockSteps : Advance(d) /\ UNCHANGED rlFrame

\* the requestsPerSecond a caller may pass to updateConfig
NewLimits == (0 - 1)..MaxRequestsPerSecond

\* updateConfig({requestsPerSecond: r}): the merged configuration is assigned,
\* then validateConfig() throws when it is not positive
UpdateConfig(r) ==
  /\ requestsPerSecond' = r
  /\ UNCHANGED <<requestTimes, now, accepted, lastCheck>>

NextRateLimiterConfig ==
  \/ CheckLimit /\ UNCHANGED rlFrame
  \/ \E d \in ClockSteps : Advance(d) /\ UNCHANGED rlFrame
  \/ \E r \in NewLimits : UpdateConfig(r) /\ UNCHANGED rlFrame

\* ---- block detection (searcher.ts: performMultiStageCapcthaDetection) ----

\* the checks of detectDuckDuckGoSpecificBlocks in the order of the code:
\* the confidence each adds and the blockType it sets
DuckDuckGoChecks ==
  << [confidence |-> 30, blockType |-> "javascript_required"],
     [confidence |-> 35, blockType |-> "rate_limited"],
     [confidence |-> 30, blockType |-> "temporarily_blocked"],
     [confidence |-> 25, blockType |-> "region_blocked"],
     [confidence |-> 20, blockType |-> "empty_page"] >>

\* the confidence added by each check of detectVisualCaptchaElements,
\* detectAntiBotBehavior and detectStructuralAnomalies
VisualChecks == <<35, 30, 35, 40, 30>>
BehaviorChecks == <<25, 20, 15, 10>>
StructureChecks == <<15, 20, 10>>

\* a response, as the checks it matches
Responses ==
  [url : BOOLEAN, basic : BOOLEAN,
   duckduckgo : SUBSET (1..Len(DuckDuckGoChecks)),
   visual : SUBSET (1..Len(VisualChecks)),
   behavior : SUBSET (1..Len(BehaviorChecks)),
   structure : SUBSET (1..Len(StructureChecks))]

RECURSIVE SumOf(_, _)
\* confidence += ... for every matched check
SumOf(weights, matched) ==
  IF matched = {} THEN 0
  ELSE LET i == CHOOSE j \in matched : TRUE IN weights[i] + SumOf(weights, matched \ {i})

\* detectDuckDuckGoSpecificBlocks: each matched check overwrites blockType
DetectDuckDuckGoSpecificBlocks(matched) ==
  LET c == SumOf([i \in 1..Len(DuckDuckGoChecks) |-> DuckDuckGoChecks[i].confidence], matched)
      last == CHOOSE i \in matched : \A j \in matched : j <= i
  IN [isBlocked |-> c >= 25, confidence |-> c,
      blockType |-> IF matched = {} THEN "unknown" ELSE DuckDuckGoChecks[last].blockType]

DetectVisualCaptchaElements(matched) ==
  LET c == SumOf(VisualChecks, matched) IN [isBlocked |-> c >= 30, confidence |-> c]

DetectAntiBotBehavior(matched) ==
  LET c == SumOf(BehaviorChecks, matched) IN [isBlocked |-> c >= 20, confidence |-> c]

DetectStructuralAnomalies(matched) ==
  LET c == SumOf(StructureChecks, matched) IN [isBlocked |-> c >= 15, confidence |-> c]

\* a bug: the confidence is reported as accumulated
NoClamp(c) == c

\* Math.min(confidence, 100)
Clamp(c) == IF c < 100 THEN c ELSE 100

\* one stage of performMultiStageCapcthaDetection: when it triggers, its name
\* is pushed, its confidence added, and blockType set (by the DuckDuckGo
\* stage always, by the others only while it is "unknown")
Stage(d, triggered, name, confidence, blockType, always) ==
  IF ~triggered THEN d
  ELSE [d EXCEPT !.triggeredStages = Append(@, name),
                 !.confidence = @ + confidence,
                 !.blockType = IF always \/ @ = "unknown" THEN blockType ELSE @]

\* performMultiStageCapcthaDetection(html, url)
PerformMultiStageCapcthaDetection(r) ==
  LET d0 == [triggeredStages |-> <<>>, confidence |-> 0, blockType |-> "unknown"]
      d1 == Stage(d0, r.url, "url_pattern", 40, "url_redirect", TRUE)
      d2 == Stage(d1, r.basic, "basic_content", 25, "content_keyword", FALSE)
      s3 == DetectDuckDuckGoSpecificBlocks(r.duckduckgo)
      d3 == Stage(d2, s3.isBlocked, "duckduckgo_specific", s3.confidence, s3.blockType, TRUE)
      s4 == DetectVisualCaptchaElements(r.visual)
      d4 == Stage(d3, s4.isBlocked, "visual_elements", s4.confidence, "visual_captcha", FALSE)
      s5 == DetectAntiBotBehavior(r.behavior)
      d5 == Stage(d4, s5.isBlocked, "behavior_pattern", s5.confidence, "anti_bot", FALSE)
      s6 == DetectStructuralAnomalies(r.structure)
      d6 == Stage(d5, s6.isBlocked, "structural_anomaly", s6.confidence, "page_structure", FALSE)
  IN [isBlocked |-> d6.confidence >= 30,
      confidence |-> Clamp(d6.confidence),
      blockType |-> d6.blockType,
      triggeredStages |-> d6.triggeredStages]

NoResponse == [url |-> FALSE, basic |-> FALSE, duckduckgo |-> {}, visual |-> {},
               behavior |-> {}, structure |-> {}]

NoDetection == [isBlocked |-> FALSE, confidence |-> 0, blockType |-> "none",
                triggeredStages |-> <<>>]

\* detectCaptchaOrBlock(html, url) examines a response
DetectCaptchaOrBlock(r) ==
  /\ response' = r
  /\ detection' = PerformMultiStageCapcthaDetection(r)
  /\ captchaEvents' = IF PerformMultiStageCapcthaDetection(r).isBlocked
                        THEN captchaEvents + 1 ELSE captchaEvents

InitDetectionIdle ==
  /\ response = NoResponse
  /\ detection = NoDetection
  /\ captchaEvents = 0

\* one response is examined in a behaviour
NextDetection ==
  /\ detection = NoDetection
  /\ \E r \in Responses : DetectCaptchaOrBlock(r) /\ UNCHANGED capFrame

(***************************************************************************)
(* ConcurrencyLimiter: the failure window behind getBackoffDelay           *)
(***************************************************************************)
MaxFailures == 3
FiveMinutes == 300000
MaxBackoffClock == 900003
BackoffClockSteps == {FiveMinutes \div 2, FiveMinutes, FiveMinutes + 1}
ConservativeBaseDelay == 2000
MaxDelay == 45000

RECURSIVE Pow(_, _)
Pow(b, e) == IF e = 0 THEN 1 ELSE b * Pow(b, e - 1)

\* the failures recordFailure keeps: those later than five minutes before t
KeepRecent(s, t) == SelectSeq(s, LAMBDA time : time > t - FiveMinutes)

\* getBackoffDelay(): 2000 * 1.8^min(n - 1, 5) capped at 45000, in 1/100 ms
BackoffDelay(n) ==
  IF n = 0 THEN 0
  ELSE LET e == IF n - 1 < 5 THEN n - 1 ELSE 5
           exponentialDelay == (ConservativeBaseDelay * 100 * Pow(18, e)) \div Pow(10, e)
       IN  IF exponentialDelay < MaxDelay * 100 THEN exponentialDelay ELSE MaxDelay * 100

NoBackoff == [called |-> FALSE, at |-> 0, delay |-> 0]

\* recordFailure(): a task of executeAll failed
RecordFailure ==
  /\ failedCount < MaxFailures
  /\ recentFailures' = KeepRecent(Append(recentFailures, clock), clock)
  /\ failedCount' = failedCount + 1
  /\ UNCHANGED <<clock, lastBackoff>>

\* getBackoffDelay() is called
GetBackoffDelay ==
  /\ lastBackoff' = [called |-> TRUE, at |-> clock,
                     delay |-> BackoffDelay(Len(recentFailures))]
  /\ UNCHANGED <<recentFailures, clock, failedCount>>

\* time passes
BackoffTick(d) ==
  /\ clock + d <= MaxBackoffClock
  /\ clock' = clock + d
  /\ UNCHANGED <<recentFailures, lastBackoff, failedCount>>

InitBackoffIdle ==
  /\ recentFailures = <<>>
  /\ clock = 0
  /\ lastBackoff = NoBackoff

NextBackoff ==
  \/ RecordFailure /\ UNCHANGED boFrame
  \/ GetBackoffDelay /\ UNCHANGED boFrame
  \/ \E d \in BackoffClockSteps : BackoffTick(d) /\ UNCHANGED boFrame

(***************************************************************************)
(* DuckDuckGoSearcher: response time trend and adaptive adjustments        *)
(***************************************************************************)
MaxSamples == 25
MaxLatencyChanges == 2
MaxErrors == 4
\* the latencies recorded, in seconds
Latencies == {1, 41}
WindowSize == 10
RecentLimit == 30
MinSamplesToAdjust == 15
MaxReductions == 3
MaxAdaptiveSwitches == 2
RestoredConcurrency == 3
InitialConcurrency == 3
\* this.defaultTimeout * 0.6, in seconds
SlowAverage == 21
CounterDecayEvery == 50

RECURSIVE SumSeq(_)
SumSeq(s) == IF s = <<>> THEN 0 ELSE Head(s) + SumSeq(Tail(s))

\* recent.slice(-n)
LastN(s, n) == IF Len(s) <= n THEN s ELSE SubSeq(s, Len(s) - n + 1, Len(s))

\* recent.slice(-2 * n, -n)
PreviousN(s, n) ==
  IF Len(s) <= n THEN <<>>
  ELSE SubSeq(s, IF Len(s) > 2 * n THEN Len(s) - 2 * n + 1 ELSE 1, Len(s) - n)

RECURSIVE SqrtIn(_, _, _)
SqrtIn(n, lo, hi) ==
  IF lo >= hi THEN lo
  ELSE LET mid == (lo + hi + 1) \div 2
       IN  IF mid * mid <= n THEN SqrtIn(n, mid, hi) ELSE SqrtIn(n, lo, mid - 1)

\* Math.sqrt, rounded down to a whole number
Sqrt(n) == SqrtIn(n, 0, 1000)

Abs(x) == IF x < 0 THEN 0 - x ELSE x
Min(a, b) == IF a < b THEN a ELSE b
Max(a, b) == IF a > b THEN a ELSE b

\* sum over the window of (10 * time - window sum)^2: 1000 * variance
Spread(w) == LET S == SumSeq(w) IN SumSeq([i \in 1..Len(w) |-> (10 * w[i] - S) * (10 * w[i] - S)])

\* the classification of analyzeResponseTimeTrend() and the confidence in 1/100, from
\* R and P, the sums of the recent and the previous window (the averages are R / 10
\* and P / 10), Q, the spread of the recent window, and 10 * baseline
Classify(R, P, Q, baseline10) ==
  LET \* recentChangeRate, in 1/100
      rate == IF P > 0 THEN (100 * (R - P)) \div P ELSE 0
      \* coefficientOfVariation, in 1/100
      cov == IF R > 0 THEN Sqrt((1000 * Q) \div (R * R)) ELSE 0
      rateBelowTenth == IF P > 0 THEN 10 * Abs(R - P) < P ELSE TRUE
      covBelowThreeTenths == IF R > 0 THEN 10 * Q < 9 * R * R ELSE TRUE
      improving == P > 0 /\ 20 * (R - P) < 0 - 3 * P
      rising == P > 0 /\ 5 * (R - P) > P
      regressed == baseline10 > 0 /\ R - baseline10 > baseline10
  IN  IF rateBelowTenth /\ covBelowThreeTenths
        THEN [trend |-> "stable", confidence |-> Max(0, 100 - cov)]
      ELSE IF improving
        THEN [trend |-> "improving",
              confidence |-> Min(100, Abs(rate) + (100 - cov) \div 2)]
      ELSE IF rising \/ regressed
        THEN [trend |-> "degrading", confidence |-> Min(100, rate + cov \div 2)]
      ELSE [trend |-> "stable", confidence |-> Max(0, 50 - Abs(rate))]

\* analyzeResponseTimeTrend()
AnalyzeResponseTimeTrend(recent, baseline10) ==
  IF Len(recent) < WindowSize THEN [trend |-> "stable", confidence |-> 0]
  ELSE Classify(SumSeq(LastN(recent, WindowSize)), SumSeq(PreviousN(recent, WindowSize)),
                Spread(LastN(recent, WindowSize)), baseline10)

ReductionAllowed(n) == n < MaxReductions
SwitchAlways(n) == TRUE
SwitchAllowed(n) == n < MaxAdaptiveSwitches

NoAdjust == [reduced |-> FALSE, reductionsBefore |-> 0, switched |-> FALSE,
             switchesBefore |-> 0, restored |-> FALSE]

\* performAdaptiveAdjustments(): A holds the limiter's maxConcurrency, the two
\* counters, the endpoint cursor and the statistics it reads
PerformAdjustments(A) ==
  IF A.confidence < 70 \/ A.totalRequests < MinSamplesToAdjust
    THEN [A EXCEPT !.did = NoAdjust]
  ELSE
    LET reduce == /\ A.trend = "degrading"
                  /\ A.maxConcurrency > 1
                  /\ ReductionAllowed(A.concurrencyReductions)
        switch == /\ A.trend = "degrading"
                  /\ A.totalResponseTime > SlowAverage * A.totalRequests
                  /\ 5 * A.totalErrors > A.totalRequests
                  /\ SwitchAllowed(A.domainSwitches)
        restore == /\ A.trend = "improving"
                   /\ A.confidence > 80
                   /\ A.maxConcurrency < RestoredConcurrency
                   /\ A.concurrencyReductions > 0
        A1 == IF reduce
                THEN [A EXCEPT !.maxConcurrency = Max(1, (3 * @) \div 4),
                               !.concurrencyReductions = @ + 1]
              ELSE IF restore
                THEN [A EXCEPT !.maxConcurrency = Min(RestoredConcurrency, @ + 1),
                               !.concurrencyReductions = Max(0, @ - 1)]
              ELSE A
        A2 == IF switch
                THEN [A1 EXCEPT !.currentDomainIndex = GetNextDomain(@),
                                !.domainSwitches = @ + 1]
                ELSE A1
        A3 == IF A.totalRequests % CounterDecayEvery = 0 /\ A2.domainSwitches > 0
                THEN [A2 EXCEPT !.domainSwitches = Max(0, @ - 1)]
                ELSE A2
    IN  [A3 EXCEPT !.did = [reduced |-> reduce,
                            reductionsBefore |-> A.concurrencyReductions,
                            switched |-> switch, switchesBefore |-> A.domainSwitches,
                            restored |-> restore]]

\* the latency differs from the one before it
Changes(t) == recentResponseTimes # <<>> /\ t # recentResponseTimes[Len(recentResponseTimes)]

\* recordResponseTime(responseTime), with the trend analysis and the adjustments it runs
RecordResponseTime(t) ==
  LET n == totalRequests + 1
      total == totalResponseTime + t
      pushed == Append(recentResponseTimes, t)
      recent == IF Len(pushed) > RecentLimit THEN Tail(pushed) ELSE pushed
      base == IF n = WindowSize THEN total ELSE baselineSum
  IN  \E T \in {AnalyzeResponseTimeTrend(recent, base)} :
        \E A \in {PerformAdjustments(
                     [maxConcurrency |-> maxConcurrency,
                      concurrencyReductions |-> concurrencyReductions,
                      domainSwitches |-> domainSwitches,
                      currentDomainIndex |-> currentDomainIndex,
                      trend |-> T.trend, confidence |-> T.confidence,
                      totalRequests |-> n, totalResponseTime |-> total,
                      totalErrors |-> totalErrors, did |-> NoAdjust])} :
          /\ totalRequests' = n
          /\ totalResponseTime' = total
          /\ baselineSum' = base
          /\ recentResponseTimes' = recent
          /\ responseTrend' = T.trend
          /\ trendConfidence' = T.confidence
          /\ maxConcurrency' = A.maxConcurrency
          /\ concurrencyReductions' = A.concurrencyReductions
          /\ domainSwitches' = A.domainSwitches
          /\ currentDomainIndex' = A.currentDomainIndex
          /\ lastAdjust' = A.did
          /\ latencyChanges' = IF Changes(t) THEN latencyChanges + 1 ELSE latencyChanges
          /\ UNCHANGED totalErrors

\* search() counts an error in performanceBreakdown.errorBreakdown
CountError ==
  /\ totalErrors < MaxErrors
  /\ totalErrors' = totalErrors + 1
  /\ UNCHANGED <<recentResponseTimes, totalRequests, totalResponseTime, baselineSum,
                 responseTrend, trendConfidence, concurrencyReductions, latencyChanges,
                 lastAdjust, maxConcurrency, domainSwitches, currentDomainIndex>>

InitTrendIdle ==
  /\ recentResponseTimes = <<>>
  /\ totalRequests = 0
  /\ totalResponseTime = 0
  /\ baselineSum = 0
  /\ responseTrend = "stable"
  /\ trendConfidence = 0
  /\ concurrencyReductions = 0
  /\ totalErrors = 0
  /\ latencyChanges = 0
  /\ lastAdjust = NoAdjust

NextTrend ==
  \/ /\ totalRequests < MaxSamples
     /\ \E t \in Latencies :
          /\ Changes(t) => latencyChanges < MaxLatencyChanges
          /\ RecordResponseTime(t)
          /\ UNCHANGED trendFrame
  \/ CountError /\ UNCHANGED trendFrame

(***************************************************************************)
(* PlaywrightNodeBridge: one worker process per executeFetchWithTimeout    *)
(***************************************************************************)
MaxInvocations == 2
Invocations == 1..MaxInvocations
ExitCodes == {"0", "1", "null"}
Outputs == {"json", "garbage"}

\* child: "none" | "running" | "closed"; timer: "none" | "armed" | "cleared" | "fired";
\* settled: what the executor passed to resolve and reject, in order
NoWorker == [child |-> "none", killed |-> FALSE, listening |-> FALSE, stdout |-> "",
             completed |-> FALSE, timer |-> "none", settled |-> <<>>]

\* clearTimeout(timeoutId)
ClearTimeout(w) == IF w.timer = "armed" THEN [w EXCEPT !.timer = "cleared"] ELSE w

NeverCompleted(w) == FALSE
\* if (completed) {return;}
Completed(w) == w.completed

\* the close handler's verdict on the exit code and the collected stdout
CloseOutcome(code, stdout) ==
  IF code = "0" THEN (IF stdout = "json" THEN "result" ELSE "parseFailed")
  ELSE "childFailed"

\* executeFetchWithTimeout(): spawn, arm the timer, write the options to stdin; when
\* the write throws the promise is rejected and no handler is registered
ExecuteFetchWithTimeout(i, writeOk) ==
  /\ workerCalls[i].child = "none"
  /\ i > 1 => workerCalls[i - 1].settled # <<>>
  /\ workerCalls' = [workerCalls EXCEPT ![i] =
       IF writeOk
         THEN [@ EXCEPT !.child = "running", !.timer = "armed", !.listening = TRUE]
         ELSE [@ EXCEPT !.child = "running", !.timer = "cleared",
                        !.settled = <<"writeFailed">>]]

\* the manual timeout fires
WorkerTimeout(i) ==
  /\ workerCalls[i].timer = "armed"
  /\ workerCalls' = [workerCalls EXCEPT ![i] =
       IF ~@.completed
         THEN [@ EXCEPT !.timer = "fired", !.completed = TRUE, !.killed = TRUE,
                        !.settled = Append(@, "timeout")]
         ELSE [@ EXCEPT !.timer = "fired"]]

\* child.stdout emits data
WorkerData(i, out) ==
  /\ workerCalls[i].child = "running"
  /\ workerCalls[i].listening
  /\ workerCalls[i].stdout # out
  /\ workerCalls' = [workerCalls EXCEPT ![i].stdout = out]

\* the child emits close
WorkerClose(i, code) ==
  /\ workerCalls[i].child = "running"
  /\ workerCalls' = [workerCalls EXCEPT ![i] =
       IF ~@.listening THEN [@ EXCEPT !.child = "closed"]
       ELSE LET w == [ClearTimeout(@) EXCEPT !.child = "closed"]
            IN  IF Completed(w) THEN w
                ELSE [w EXCEPT !.completed = TRUE,
                               !.settled = Append(@, CloseOutcome(code, w.stdout))]]

\* the child emits error
WorkerError(i) ==
  /\ workerCalls[i].child = "running"
  /\ workerCalls[i].listening
  /\ workerCalls' = [workerCalls EXCEPT ![i] =
       LET w == ClearTimeout(@)
       IN  IF Completed(w) THEN w
           ELSE [w EXCEPT !.completed = TRUE, !.settled = Append(@, "error")]]

InitWorkerIdle == workerCalls = [i \in Invocations |-> NoWorker]

NextWorker ==
  \/ \E i \in Invocations, writeOk \in BOOLEAN :
       ExecuteFetchWithTimeout(i, writeOk) /\ UNCHANGED workerFrame
  \/ \E i \in Invocations : WorkerTimeout(i) /\ UNCHANGED workerFrame
  \/ \E i \in Invocations, out \in Outputs : WorkerData(i, out) /\ UNCHANGED workerFrame
  \/ \E i \in Invocations, code \in ExitCodes :
       WorkerClose(i, code) /\ UNCHANGED workerFrame
  \/ \E i \in Invocations : WorkerError(i) /\ UNCHANGED workerFrame

(***************************************************************************)
(* BrowserPool: the switch from headless to headed mode                    *)
(***************************************************************************)
\* pc: "idle" | "saving" | "tabs" | "contexts" | "browser" | "launching" | "done";
\* old is the browser closeBrowserGracefully closes, headed the one launched
NoSwitch == [pc |-> "idle",
             save |-> [x \in 1..MaxContexts |-> "none"],
             tabs |-> [q \in 1..MaxPages |-> "none"],
             ctxs |-> [x \in 1..MaxContexts |-> "none"],
             browser |-> "none", old |-> 0, headed |-> 0]

\* the pool, the switchToHeadedMode() call and the mode flag, as one value
Sw == [pool |-> Pool, call |-> switchCall, isHeadless |-> isHeadless]

SetSw(W) ==
  /\ SetPool(W.pool)
  /\ switchCall' = W.call
  /\ isHeadless' = W.isHeadless

\* the contexts this.contexts holds
MapContexts(S) == {S.contexts[k] : k \in ContextIds} \ {0}

\* switchToHeadedMode after closeBrowserGracefully: the flag is cleared and
\* createSingleBrowser runs; closeBrowserGracefully left no browser set, so its
\* cleanup() is not entered and browserService.createBrowser is awaited
SwitchLaunchStep(W) == [W EXCEPT !.isHeadless = FALSE, !.call.pc = "launching"]

\* closeBrowserGracefully: this.contexts.clear(), then this.singleBrowser.close() is
\* awaited; with no browser set the call throws and the catch resets the state
SwitchBrowserStep(W) ==
  LET W1 == [W EXCEPT !.pool.contexts = [k \in ContextIds |-> 0]] IN
  IF W1.pool.singleBrowser # 0
    THEN [W1 EXCEPT !.call.pc = "browser", !.call.browser = "pending",
                    !.call.old = W1.pool.singleBrowser]
    ELSE SwitchLaunchStep([W1 EXCEPT !.pool.activeTabs = {}])

\* closeBrowserGracefully: this.activeTabs.clear(), then context.close() is awaited
\* for every context this.contexts holds now
SwitchContextsStep(W) ==
  LET W1 == [W EXCEPT !.pool.activeTabs = {}]
      X == MapContexts(W1.pool)
  IN  IF X = {} THEN SwitchBrowserStep(W1)
      ELSE [W1 EXCEPT !.call.pc = "contexts",
                      !.call.ctxs = [x \in 1..MaxContexts |->
                                       IF x \in X THEN "pending" ELSE W.call.ctxs[x]]]

\* closeBrowserGracefully up to its first await: nothing to do without a browser,
\* else page.close() is awaited for every active tab
SwitchTabsStep(W) ==
  IF W.pool.singleBrowser = 0 THEN SwitchLaunchStep(W)
  ELSE IF W.pool.activeTabs = {} THEN SwitchContextsStep(W)
  ELSE [W EXCEPT !.call.pc = "tabs",
                 !.call.tabs = [q \in 1..MaxPages |->
                                  IF q \in W.pool.activeTabs THEN "pending" ELSE "none"]]

\* saveAllContextStates: saveContextState for every context this.contexts holds now;
\* without persistence each returns at once
SaveAllContextStates(W) ==
  LET X == MapContexts(W.pool) IN
  IF X = {} \/ ~enableStatePersistence THEN SwitchTabsStep(W)
  ELSE [W EXCEPT !.call.pc = "saving",
                 !.call.save = [x \in 1..MaxContexts |->
                                  IF x \in X THEN "pending" ELSE "none"]]

\* switchToHeadedMode() is called on a headless pool
SwitchToHeadedMode ==
  /\ switchCall.pc = "idle"
  /\ isHeadless
  /\ SetSw(SaveAllContextStates(Sw))
  /\ UNCHANGED switchFrame

\* context.storageState() settles: a failure is logged and swallowed
ContextStateSaved(x, ok) ==
  /\ switchCall.pc = "saving"
  /\ switchCall.save[x] = "pending"
  /\ LET W1 == [Sw EXCEPT !.call.save[x] = IF ok THEN "saved" ELSE "failed"]
     IN  IF \A y \in 1..MaxContexts : W1.call.save[y] # "pending"
           THEN SetSw(SwitchTabsStep(W1))
           ELSE SetSw(W1)
  /\ UNCHANGED switchFrame

\* page.close() settles: a failure is logged and swallowed
SwitchTabClosed(q, ok) ==
  /\ switchCall.pc = "tabs"
  /\ switchCall.tabs[q] = "pending"
  /\ LET W1 == IF ok THEN [Sw EXCEPT !.pool.pages[q] = ClosedPage, !.call.tabs[q] = "closed"]
                     ELSE [Sw EXCEPT !.call.tabs[q] = "failed"]
     IN  IF \A r \in 1..MaxPages : W1.call.tabs[r] # "pending"
           THEN SetSw(SwitchContextsStep(W1))
           ELSE SetSw(W1)
  /\ UNCHANGED switchFrame

\* context.close() settles: a failure is logged and swallowed
SwitchContextClosed(x, ok) ==
  /\ switchCall.pc = "contexts"
  /\ switchCall.ctxs[x] = "pending"
  /\ LET W1 == IF ok THEN [Sw EXCEPT !.pool = CloseContexts(@, {x}),
                                     !.call.ctxs[x] = "closed"]
                     ELSE [Sw EXCEPT !.call.ctxs[x] = "failed"]
     IN  IF \A y \in 1..MaxContexts : W1.call.ctxs[y] # "pending"
           THEN SetSw(SwitchBrowserStep(W1))
           ELSE SetSw(W1)
  /\ UNCHANGED switchFrame

\* this.singleBrowser.close() settles; on a failure the catch clears the state
SwitchBrowserClosed(ok) ==
  /\ switchCall.pc = "browser"
  /\ IF ok
       THEN SetSw(SwitchLaunchStep([Sw EXCEPT !.pool = [EndBrowser(@, switchCall.old)
                                                         EXCEPT !.singleBrowser = 0],
                                              !.call.browser = "closed"]))
       ELSE SetSw(SwitchLaunchStep([Sw EXCEPT !.pool.singleBrowser = 0,
                                              !.pool.activeTabs = {},
                                              !.pool.contexts = [k \in ContextIds |-> 0],
                                              !.call.browser = "failed"]))
  /\ UNCHANGED switchFrame

\* browserService.createBrowser({headless: false}) resolves
HeadedLaunchDone ==
  /\ switchCall.pc = "launching"
  /\ FreeBrowsers(Pool) # {}
  /\ LET b == FirstOf(FreeBrowsers(Pool)) IN
     SetSw([Sw EXCEPT !.pool.browsers[b] = "alive", !.pool.singleBrowser = b,
                      !.call.headed = b, !.call.pc = "done"])
  /\ UNCHANGED switchFrame

InitSwitchIdle == switchCall = NoSwitch /\ isHeadless = TRUE

\* the switch, and createTab calls going on beside it
NextSwitch ==
  \/ SwitchToHeadedMode
  \/ \E x \in 1..MaxContexts, ok \in BOOLEAN : ContextStateSaved(x, ok)
  \/ \E q \in 1..MaxPages, ok \in BOOLEAN : SwitchTabClosed(q, ok)
  \/ \E x \in 1..MaxContexts, ok \in BOOLEAN : SwitchContextClosed(x, ok)
  \/ \E ok \in BOOLEAN : SwitchBrowserClosed(ok)
  \/ HeadedLaunchDone
  \/ \E c \in Callers, id \in CallerContextIds :
       CreateTab(c, id) /\ UNCHANGED <<limVars, batchVars, searchVars, auxVars>>
  \/ \E p \in Procs : CleanupDone(p) /\ UNCHANGED <<limVars, batchVars, searchVars, auxVars>>
  \/ \E p \in Procs : LaunchDone(p) /\ UNCHANGED <<limVars, batchVars, searchVars, auxVars>>
  \/ \E c \in Callers : WaitDone(c) /\ UNCHANGED <<limVars, batchVars, searchVars, auxVars>>
  \/ \E p \in Procs : ContextCreated(p) /\ UNCHANGED <<limVars, batchVars, searchVars, auxVars>>
  \/ \E c \in Callers : PageCreated(c) /\ UNCHANGED <<limVars, batchVars, searchVars, auxVars>>

(***************************************************************************)
(* BrowserPool: how many prewarmed tabs the pool holds                     *)
(***************************************************************************)
MaxHandOuts == 3

\* the sequence s without its i-th element
RemoveAt(s, i) == SubSeq(s, 1, i - 1) \o SubSeq(s, i + 1, Len(s))

\* replenishPrewarmedTabs(): with n tabs left, a timer for prewarmTabs(needed)
ReplenishPrewarmedTabs(n) ==
  LET needed == PrewarmTarget - n IN
  IF needed > 0 THEN Append(warmTimers, needed) ELSE warmTimers

\* getPrewarmedTab(): a prewarmed tab is handed out and the replenishment scheduled
GetPrewarmedTab ==
  /\ warmTabs > 0
  /\ handedOut < MaxHandOuts
  /\ warmTabs' = warmTabs - 1
  /\ handedOut' = handedOut + 1
  /\ warmTimers' = ReplenishPrewarmedTabs(warmTabs - 1)
  /\ UNCHANGED warmRuns

\* a prewarming timer fires: prewarmTabs(count) runs up to the first newPage()
PrewarmTabs(i) ==
  /\ i \in 1..Len(warmTimers)
  /\ warmRuns' = Append(warmRuns, warmTimers[i])
  /\ warmTimers' = RemoveAt(warmTimers, i)
  /\ UNCHANGED <<warmTabs, handedOut>>

\* prewarmTabs: context.newPage() settles, one turn of the loop; a failure is caught
WarmPageCreated(r, ok) ==
  /\ r \in 1..Len(warmRuns)
  /\ warmTabs' = IF ok THEN warmTabs + 1 ELSE warmTabs
  /\ warmRuns' = IF warmRuns[r] > 1 THEN [warmRuns EXCEPT ![r] = @ - 1]
                                    ELSE RemoveAt(warmRuns, r)
  /\ UNCHANGED <<warmTimers, handedOut>>

InitWarmIdle ==
  /\ warmTabs = 0
  /\ warmTimers = <<>>
  /\ warmRuns = <<>>
  /\ handedOut = 0

\* startTabPrewarming(): the constructor set the timer for prewarmTabs(min(2, maxTabs))
InitWarm ==
  /\ warmTabs = 0
  /\ warmTimers = <<PrewarmTarget>>
  /\ warmRuns = <<>>
  /\ handedOut = 0

NextWarm ==
  \/ GetPrewarmedTab /\ UNCHANGED warmFrame
  \/ \E i \in 1..(MaxHandOuts + 1) : PrewarmTabs(i) /\ UNCHANGED warmFrame
  \/ \E r \in 1..(MaxHandOuts + 1), ok \in BOOLEAN : WarmPageCreated(r, ok) /\ UNCHANGED warmFrame

(***************************************************************************)
(* DuckDuckGoSearcher.search: the delay that follows a timed-out attempt   *)
(***************************************************************************)
MaxTimeouts == 4
ProtectAfter == 3
AttemptOutcomes == {"ok", "TIMEOUT", "EARLY_TIMEOUT", "other"}

\* the last three outcomes, with o as the newest
Remember(s, o) == IF Len(s) < 3 THEN Append(s, o) ELSE Append(Tail(s), o)

\* the catch of search() for a TIMEOUT: the delay awaited before `continue`
TimeoutDelay(count, n) ==
  IF count >= ProtectAfter THEN "conservative"
  ELSE IF n < MaxRetries THEN "linear"
  ELSE "none"

\* the catch of search() for an EARLY_TIMEOUT
EarlyTimeoutDelay(n) == IF n < MaxRetries THEN "fixed" ELSE "none"

\* the next value of the loop counter: a new search() call starts at 1
NextTry(n, retried) == IF retried /\ n < MaxRetries THEN n + 1 ELSE 1

\* one attempt of search() ends with outcome o
AttemptEnds(o) ==
  /\ o \in {"TIMEOUT", "EARLY_TIMEOUT"} => timeouts < MaxTimeouts
  /\ recentOutcomes' = Remember(recentOutcomes, o)
  /\ timeouts' = IF o \in {"TIMEOUT", "EARLY_TIMEOUT"} THEN timeouts + 1 ELSE timeouts
  /\ lastDelay' = CASE o = "TIMEOUT" -> TimeoutDelay(timeouts + 1, tryNo)
                     [] o = "EARLY_TIMEOUT" -> EarlyTimeoutDelay(tryNo)
                     [] OTHER -> "none"
  /\ tryNo' = NextTry(tryNo, o \in {"TIMEOUT", "EARLY_TIMEOUT"})

InitTimeoutsIdle ==
  /\ timeouts = 0
  /\ tryNo = 1
  /\ recentOutcomes = <<>>
  /\ lastDelay = "none"

NextTimeouts == \E o \in AttemptOutcomes : AttemptEnds(o) /\ UNCHANGED toFrame

\* ---- DuckDuckGoSearcher.performSingleSearch: calls in flight together ----
\* batchSearch runs up to maxConcurrency search() calls at once on one searcher; each
\* runs performSingleSearch with its own attempts and attemptedDomains and all of
\* them read and move this.currentDomainIndex.

\* the search() calls that may be in flight together
MaxCalls == 2
Calls == 1..MaxCalls

\* how the request of a call ends, as far as the loop tells them apart: a result, an
\* error that leaves the sweep (EARLY_TIMEOUT, CAPTCHA_DETECTED), any other error
CallOutcomes == {"ok", "leave", "fail"}

NoSweep == [pc |-> "idle", attempts |-> 0, attemptedDomains |-> {}]

\* performSingleSearch: the for loop of one call from its test to its next request,
\* reading the cursor as it is now.  The result is the cursor and the call.
RECURSIVE CallLoop(_, _)
CallLoop(cursor, c) ==
  IF c.attempts >= NumDomains
    THEN [cursor |-> cursor, call |-> [c EXCEPT !.pc = "allFailed"]]
    ELSE IF cursor \in c.attemptedDomains
      THEN CallLoop(GetNextDomain(cursor), [c EXCEPT !.attempts = @ + 1])
      ELSE [cursor |-> cursor,
            call |-> [c EXCEPT !.attemptedDomains = @ \cup {cursor}, !.pc = "request"]]

\* performSingleSearch is entered by call i: fresh locals, then the loop
CallSweep(i) ==
  /\ sweeps[i].pc # "request"
  /\ LET r == CallLoop(currentDomainIndex, [NoSweep EXCEPT !.pc = "loop"]) IN
       /\ currentDomainIndex' = r.cursor
       /\ sweeps' = [sweeps EXCEPT ![i] = r.call]
       /\ UNCHANGED domainSwitches

\* the request of call i ends.  A good response is recorded (the adaptive
\* adjustment may move the cursor) and returned; EARLY_TIMEOUT and
\* CAPTCHA_DETECTED are rethrown; any other failure moves the cursor one on
\* (handleDomainFailure) and the loop goes on.
CallResponse(i, o, adj) ==
  /\ sweeps[i].pc = "request"
  /\ CASE o = "ok" ->
            LET S == PerformAdaptiveAdjustments(
                       [currentDomainIndex |-> currentDomainIndex,
                        domainSwitches |-> domainSwitches], adj) IN
              /\ currentDomainIndex' = S.currentDomainIndex
              /\ domainSwitches' = S.domainSwitches
              /\ sweeps' = [sweeps EXCEPT ![i].pc = "returned"]
       [] o = "leave" ->
              /\ adj = "none"
              /\ sweeps' = [sweeps EXCEPT ![i].pc = "thrown"]
              /\ UNCHANGED <<currentDomainIndex, domainSwitches>>
       [] OTHER ->
            LET r == CallLoop(GetNextDomain(currentDomainIndex),
                              [sweeps[i] EXCEPT !.attempts = @ + 1]) IN
              /\ adj = "none"
              /\ currentDomainIndex' = r.cursor
              /\ sweeps' = [sweeps EXCEPT ![i] = r.call]
              /\ UNCHANGED domainSwitches

InitSweepsIdle == sweeps = [i \in Calls |-> NoSweep]

NextSweeps ==
  \/ \E i \in Calls : CallSweep(i) /\ UNCHANGED ccFrame
  \/ \E i \in Calls, o \in CallOutcomes, adj \in Adjustments :
       CallResponse(i, o, adj) /\ UNCHANGED ccFrame

InitExtIdle ==
  InitBackoffIdle /\ InitTrendIdle /\ InitWorkerIdle /\ InitSwitchIdle /\ InitWarmIdle
    /\ InitTimeoutsIdle /\ InitSweepsIdle

InitAuxIdle ==
  InitFetchIdle /\ InitCleanupIdle /\ InitBatchSearchIdle /\ InitRateLimiterIdle
    /\ InitDetectionIdle /\ InitExtIdle

\* a limiter nothing was submitted to
InitLimiterUnused ==
  /\ running = 0
  /\ queue = <<>>
  /\ completedCount = 0
  /\ failedCount = 0
  /\ nextTask = 1
  /\ tstate = [t \in Tasks |-> "new"]
  /\ startCount = [t \in Tasks |-> 0]
  /\ bState = "none"
  /\ bFirst = 0
  /\ bSize = 0
  /\ bFailFast = FALSE
  /\ bTimeout = FALSE
  /\ wres = [i \in 1..MaxBatch |-> <<>>]
  /\ completedTasks = 0
  /\ results = <<>>

\* the limiter not used: the state the other specifications keep
InitLimiterIdle == maxConcurrency = 1 /\ InitLimiterUnused

\* the searcher's own limiter, new ConcurrencyLimiter(3), with nothing submitted
InitSearcherLimiter == maxConcurrency = InitialConcurrency /\ InitLimiterUnused

vars == <<limVars, batchVars, poolVars, searchVars, auxVars>>

\* a limiter under use, the pool not constructed
LimiterInit == InitLimiter /\ InitPoolIdle /\ InitSearchIdle /\ InitAuxIdle

SpecLimiter == LimiterInit /\ [][NextLimiter]_vars

\* every running task eventually finishes
LimiterProgress ==
  /\ \E t \in Tasks, ok \in BOOLEAN : TaskSettles(t, ok)
  /\ UNCHANGED <<poolVars, searchVars, auxVars>>

\* callers of execute() alone: no batch is ever opened
NextExecute ==
  \/ \E p \in Priorities : Execute(p) /\ UNCHANGED <<poolVars, searchVars, auxVars>>
  \/ \E t \in Tasks, ok \in BOOLEAN : TaskSettles(t, ok) /\ UNCHANGED <<poolVars, searchVars, auxVars>>
  \/ ClearQueue /\ UNCHANGED <<poolVars, searchVars, auxVars>>

SpecLimiterFair == LimiterInit /\ [][NextExecute]_vars /\ WF_vars(LimiterProgress)

\* a pool under use, the limiter idle
PoolInit == InitPool /\ InitLimiterIdle /\ InitSearchIdle /\ InitAuxIdle

SpecPool == PoolInit /\ [][NextPool]_vars

\* a searcher under use, the limiter idle and the pool not constructed
SearchInit == InitSearch /\ InitLimiterIdle /\ InitPoolIdle /\ InitAuxIdle

SpecSearch == SearchInit /\ [][NextSearch]_vars

\* a request is answered or times out, a delay ends, the browser search ends
SearchProgress ==
  /\ \/ \E o \in Outcomes, adj \in Adjustments : Response(o, adj)
     \/ DelayDone
     \/ \E ok \in BOOLEAN : BrowserDone(ok)
  /\ UNCHANGED <<limVars, batchVars, poolVars, auxVars>>

SpecSearchFair == SearchInit /\ [][NextSearch]_vars /\ WF_vars(SearchProgress)

FetchInit ==
  InitFetchIdle /\ InitLimiterIdle /\ InitPoolIdle /\ InitSearchIdle /\ InitCleanupIdle
    /\ InitBatchSearchIdle /\ InitRateLimiterIdle /\ InitDetectionIdle /\ InitExtIdle

DetectionInit == InitLimiterIdle /\ InitPoolIdle /\ InitSearchIdle /\ InitAuxIdle

SpecDetection == DetectionInit /\ [][NextDetection]_vars

RateLimiterInit ==
  InitRateLimiter /\ InitLimiterIdle /\ InitPoolIdle /\ InitSearchIdle /\ InitFetchIdle
    /\ InitCleanupIdle /\ InitBatchSearchIdle /\ InitDetectionIdle /\ InitExtIdle

SpecRateLimiter == RateLimiterInit /\ [][NextRateLimiter]_vars

SpecRateLimiterConfig == RateLimiterInit /\ [][NextRateLimiterConfig]_vars

BatchSearchInit ==
  InitLimiter /\ InitBatchSearchIdle /\ InitPoolIdle /\ InitSearchIdle /\ InitFetchIdle
    /\ InitCleanupIdle /\ InitRateLimiterIdle /\ InitDetectionIdle /\ InitExtIdle

SpecBatchSearch == BatchSearchInit /\ [][NextBatchSearch]_vars

ShutdownInit ==
  InitShutdown /\ InitLimiterIdle /\ InitSearchIdle /\ InitFetchIdle /\ InitBatchSearchIdle
    /\ InitRateLimiterIdle /\ InitDetectionIdle /\ InitExtIdle

SpecShutdown == ShutdownInit /\ [][NextShutdown]_vars

BackoffInit == InitLimiterIdle /\ InitPoolIdle /\ InitSearchIdle /\ InitAuxIdle

SpecBackoff == BackoffInit /\ [][NextBackoff]_vars

TrendInit == InitSearcherLimiter /\ InitPoolIdle /\ InitSearchIdle /\ InitAuxIdle

SpecTrend == TrendInit /\ [][NextTrend]_vars

WorkerInit == InitLimiterIdle /\ InitPoolIdle /\ InitSearchIdle /\ InitAuxIdle

SpecWorker == WorkerInit /\ [][NextWorker]_vars

SwitchInit == InitPoolAtRest /\ InitLimiterIdle /\ InitSearchIdle /\ InitAuxIdle

SpecSwitch == SwitchInit /\ [][NextSwitch]_vars

\* a pool constructed with prewarming enabled, before its first browser
WarmInit ==
  /\ InitPool /\ isPrewarmingEnabled
  /\ InitWarm /\ InitBackoffIdle /\ InitTrendIdle /\ InitWorkerIdle /\ InitSwitchIdle
  /\ InitTimeoutsIdle /\ InitSweepsIdle
  /\ InitLimiterIdle /\ InitSearchIdle /\ InitFetchIdle /\ InitCleanupIdle
  /\ InitBatchSearchIdle /\ InitRateLimiterIdle /\ InitDetectionIdle

SpecWarm == WarmInit /\ [][NextWarm]_vars

\* a searcher without a browser pool, no call in flight
SweepsInit ==
  /\ InitSearch /\ ~hasBrowserPool
  /\ InitLimiterIdle /\ InitPoolIdle /\ InitAuxIdle

SpecSweeps == SweepsInit /\ [][NextSweeps]_vars

TimeoutsInit == InitLimiterIdle /\ InitPoolIdle /\ InitSearchIdle /\ InitAuxIdle

SpecTimeouts == TimeoutsInit /\ [][NextTimeouts]_vars

\* page.close(), storageState(), context.close() and browser.close() settle
CleanupProgress ==
  /\ \/ \E q \in 1..MaxPages, ok \in BOOLEAN : TabClosed(q, ok)
     \/ \E x \in 1..MaxContexts, ok \in BOOLEAN : ContextSaved(x, ok)
     \/ \E x \in 1..MaxContexts, ok \in BOOLEAN : ContextClosed(x, ok)
     \/ \E ok \in BOOLEAN : BrowserClosed(ok)
  /\ UNCHANGED cleanupFrame

SpecShutdownFair == ShutdownInit /\ [][NextShutdown]_vars /\ WF_vars(CleanupProgress)

SpecFetch == FetchInit /\ [][NextFetch]_vars

(***************************************************************************)
(* Claims about the ConcurrencyLimiter                                     *)
(***************************************************************************)

RunningTasks == {t \in Tasks : tstate[t] = "running"}
Submitted == 1..(nextTask - 1)
LimiterIdle == running = 0 /\ queue = <<>>

\* C1: the number of tasks that have started and not yet finished never
\* exceeds maxConcurrency.
C1_RunningBounded == Cardinality(RunningTasks) <= maxConcurrency

\* C1 witness: the limiter is full with two tasks running and one waiting,
\* after an executeAll submission and completions of both kinds.
C1_Witness ==
  /\ Cardinality(RunningTasks) = maxConcurrency
  /\ maxConcurrency >= 2
  /\ queue # <<>>
  /\ bState # "none"
  /\ completedCount >= 1
  /\ failedCount >= 1

\* C5: a task that leaves the queue to run has the highest priority of all
\* queued items and, among the queued items of that priority, the smallest
\* submission number (it was enqueued first).
C5_DispatchOrder ==
  [][\A t \in Tasks :
       (tstate[t] = "queued" /\ tstate'[t] = "running") =>
         \E i \in 1..Len(queue) :
           /\ queue[i].id = t
           /\ \A j \in 1..Len(queue) :
                j # i =>
                  \/ PriorityOrder(queue[i].priority) > PriorityOrder(queue[j].priority)
                  \/ /\ queue[i].priority = queue[j].priority
                     /\ queue[i].id < queue[j].id]_vars

\* C5 witness: a task runs that was submitted after two normal-priority
\* items still waiting in the queue: it was enqueued behind them (the limiter
\* was full) and dispatched ahead of them.
C5_Witness ==
  \E u \in RunningTasks, i, j \in 1..Len(queue) :
    /\ i < j
    /\ queue[i].priority = "normal" /\ queue[j].priority = "normal"
    /\ queue[i].id < queue[j].id
    /\ queue[j].id < u

\* C6: executeAll's result list holds, at position i, the outcome of input
\* task i, tagged index = i (0-based in the code).
C6_ResultsInInputOrder ==
  bState = "resolved" =>
    /\ Len(results) = bSize
    /\ \A i \in 1..Len(results) :
         /\ results[i].index = i - 1
         /\ results[i].task = bFirst + i
         /\ results[i].success => tstate[bFirst + i] = "finished"

\* C6 witness: executeAll returned for tasks that completed in another order
\* than they were given.
C6_Witness ==
  /\ bState = "resolved"
  /\ \E i, j \in 1..Len(results) : i < j /\ results[i].duration > results[j].duration

C8_StartedExactlyOnce ==
  /\ \A t \in Tasks : startCount[t] <= 1
  /\ LimiterIdle => \A t \in Submitted : startCount[t] = 1

\* C8 amended: no task is started twice; a task that runs or has finished was
\* started once; a task waiting in the queue or removed by clearQueue() was
\* not started; once the limiter is idle, every submitted task that
\* clearQueue() did not remove has been started exactly once.
C8_StartedOnceUnlessCleared ==
  /\ \A t \in Tasks : startCount[t] <= 1
  /\ \A t \in Submitted :
       /\ tstate[t] \in {"running", "finished"} => startCount[t] = 1
       /\ tstate[t] \in {"queued", "dropped"} => startCount[t] = 0
  /\ LimiterIdle => \A t \in Submitted : tstate[t] # "dropped" => startCount[t] = 1

\* C8 witness: the limiter is idle; one task ran after waiting in the queue,
\* another was removed by clearQueue() and never ran.
C8_Witness ==
  /\ LimiterIdle
  /\ \E t, u \in Submitted :
       /\ t < u
       /\ tstate[t] = "dropped" /\ startCount[t] = 0
       /\ tstate[u] = "finished" /\ startCount[u] = 1

(***************************************************************************)
(* Claims about the BrowserPool                                            *)
(***************************************************************************)

OpenHandedOutTabs == {q \in activeTabs : IsOpen(pages[q])}
AliveBrowsers == {b \in 1..MaxBrowsers : browsers[b] = "alive"}
LiveContexts(id) == {x \in 1..MaxContexts : ctxs[x].key = id /\ IsOpen(ctxs[x])}

\* C2: the number of open tabs handed out to callers never exceeds maxTabs.
C2_TabsBounded == Cardinality(OpenHandedOutTabs) <= maxTabs

\* C3: browser creation is serialized: at most one launch is in flight and at
\* most one browser process is alive.
C3_OneBrowser ==
  /\ Cardinality({p \in Procs : pc[p] = "launching"}) <= 1
  /\ Cardinality(AliveBrowsers) <= 1

\* C4: at most one live context object exists per context id.
C4_OneContextPerId == \A id \in ContextIds : Cardinality(LiveContexts(id)) <= 1

(***************************************************************************)
(* Claims about the endpoint failover of DuckDuckGoSearcher                *)
(***************************************************************************)

\* the endpoints in circular cursor order, from endpoint s
CircularFrom(s) == [i \in 1..NumDomains |-> (s + i - 1) % NumDomains]

\* C9: a sweep that ends with every endpoint failed has requested each
\* endpoint exactly once, in circular order from the cursor it started at.
C9_SweepVisitsEachOnce == sweepEnd = "allFailed" => sweepLog = CircularFrom(sweepStart)

\* C9 witness: a sweep that started at endpoint 2 has failed at all four
\* endpoints, wrapping around, in the second attempt of the call.
C9_Witness ==
  /\ sweepEnd = "allFailed"
  /\ sweepStart = 2
  /\ sweepLog = <<2, 3, 0, 1>>
  /\ attempt = 2

\* C10: counting all the attempts of one search() call, no endpoint is
\* requested more than once.
C10_EndpointOncePerCall == \A d \in Domains : requests[d] <= 1

\* C11: a sweep that ends with every endpoint tried and failed raises the
\* error of code ALL_DOMAINS_FAILED.
C11_AllDomainsFailedRaised == sweepEnd = "allFailed" => lastError = "ALL_DOMAINS_FAILED"

Terminal == {"returned", "failed"}

NewCallOnly ==
  sPc \in Terminal => (attempt' = 1 /\ sPc' \notin Terminal /\ raised' = NoError)

\* C12: a search() call makes at most MaxRetries attempts; it ends returned
\* (no error raised) or failed (an error raised), never both; from a terminal
\* state nothing happens but a new call starting its first attempt; and a
\* call in flight always reaches a terminal state.
C12_BoundedAttemptsThenTerminal ==
  /\ [](attempt <= MaxRetries)
  /\ []((sPc = "returned" => raised = NoError) /\ (sPc = "failed" => raised # NoError))
  /\ [][NewCallOnly]_searchVars
  /\ (sPc \notin (Terminal \cup {"idle"}) ~> sPc \in Terminal)

\* C12 witness: a call has failed in its third attempt after three full
\* sweeps.
C12_Witness ==
  /\ sPc = "failed"
  /\ attempt = MaxRetries
  /\ \A d \in Domains : requests[d] = MaxRetries

\* C13: within one search() call the browser escalation is entered at most
\* once.
C13_EscalationAtMostOnce == escalations <= 1

\* C14: once an endpoint has answered 4xx, search() has failed: no further
\* request is in flight and no retry is pending.
C14_ClientErrorNotRetried == lastError = "API_ERROR_4xx" => sPc = "failed"

\* C15: the error a failed search() raises is the last observed error and
\* has a field with the number of attempts made.
C15_LastErrorWithAttemptCount ==
  sPc = "failed" =>
    /\ raised = SearchError(lastError)
    /\ "attempts" \in DOMAIN raised
    /\ raised.attempts = attempt

\* C16: a fetchWebpage call whose every request is answered 403 sends a
\* bounded number of requests: the first one and one for each retry strategy.
C16_DeniedFetchBounded == allDenied => fetchRequests <= NumStrategies + 1

\* what cleanup() leaves once it has returned: no active tab, no context, no
\* browser handle, no sweep timer; nothing still awaited; and whatever is
\* still open is open only because each close that covers it was tried and
\* failed
CleanedUp ==
  /\ activeTabs = {}
  /\ \A k \in ContextIds : contexts[k] = 0
  /\ singleBrowser = 0
  /\ ~cleanupInterval
  /\ \A q \in 1..MaxPages : cleanupCall.tabs[q] # "pending"
  /\ \A x \in 1..MaxContexts : cleanupCall.ctxs[x] \notin {"save", "close"}
  /\ \A q \in 1..MaxPages :
       IsOpen(pages[q]) => /\ cleanupCall.tabs[q] = "failed"
                           /\ cleanupCall.ctxs[pages[q].context] = "failed"
                           /\ cleanupCall.browser = "failed"
  /\ \A x \in 1..MaxContexts :
       IsOpen(ctxs[x]) => /\ cleanupCall.ctxs[x] = "failed"
                          /\ cleanupCall.browser = "failed"

\* C17: cleanup() never stops at a failed step, it always runs to its end,
\* and when it has returned the pool holds no active tab, no context and no
\* browser handle, every close having been attempted.
C17_ShutdownCompletes ==
  /\ [](cleanupCall.pc # "thrown")
  /\ [](cleanupCall.pc = "done" => CleanedUp)
  /\ (cleanupCall.pc \notin {"idle", "done"} ~> cleanupCall.pc = "done")

\* C17 witness: cleanup() has returned although a page, the saving of a
\* context, the closing of a context and the closing of the browser failed.
C17_Witness ==
  /\ cleanupCall.pc = "done"
  /\ \E q \in 1..MaxPages : cleanupCall.tabs[q] = "failed"
  /\ \E x \in 1..MaxContexts : cleanupCall.saved[x] = "failed" /\ cleanupCall.ctxs[x] = "failed"
  /\ cleanupCall.browser = "failed"
  /\ CleanedUp

\* C18: batchSearch never rejects; when it resolves there is one result per
\* query, result j carries index j (0-based) and its own query, it is a
\* success exactly when its own search succeeded before its own timeout, a
\* failure carries an error, and an empty query is a failure.
C18_OneResultPerQuery ==
  /\ bsPc # "rejected"
  /\ bsPc = "resolved" =>
       /\ Len(batchResults) = Len(queries)
       /\ \A j \in 1..Len(queries) :
            /\ batchResults[j].index = j - 1
            /\ batchResults[j].query = queries[j]
            /\ batchResults[j].success =
                 (wres[j][1].error = "none" /\ singleResults[j][1].success)
            /\ ~batchResults[j].success => batchResults[j].error # "none"
            /\ queries[j] = "" => ~batchResults[j].success

\* C18 witness: a batch of two has resolved in which the second query
\* finished first and succeeded and the first one, empty, failed.
C18_Witness ==
  /\ bsPc = "resolved"
  /\ Len(queries) = 2
  /\ queries[1] = ""
  /\ wres[2][1].duration < wres[1][1].duration
  /\ batchResults[2].success
  /\ ~batchResults[1].success

\* C19: no window of 1000 ms holds more than requestsPerSecond accepted
\* calls, and a call that arrives while the window is full is rejected with
\* a RateLimitError whose retry-after is at least one second.
C19_WindowNeverExceeded ==
  /\ \A i \in 1..Len(accepted) :
       Cardinality({j \in 1..Len(accepted) :
                      accepted[j] >= accepted[i] /\ accepted[j] - accepted[i] < Window})
         <= requestsPerSecond
  /\ lastCheck.full => lastCheck.outcome = "RateLimitError" /\ lastCheck.retryAfter >= 1

\* C19 witness: with requestsPerSecond = 2, two calls issued together were
\* accepted and a third one, 999 ms later, found the window full and was
\* rejected.
C19_Witness ==
  /\ requestsPerSecond = 2
  /\ Len(accepted) = 2
  /\ accepted[1] = accepted[2]
  /\ lastCheck.at = accepted[1] + Window - 1
  /\ lastCheck.full
  /\ lastCheck.outcome = "RateLimitError"

\* the confidence of the stages a response triggers, added up
TotalConfidence(r) ==
  LET s3 == DetectDuckDuckGoSpecificBlocks(r.duckduckgo)
      s4 == DetectVisualCaptchaElements(r.visual)
      s5 == DetectAntiBotBehavior(r.behavior)
      s6 == DetectStructuralAnomalies(r.structure)
  IN (IF r.url THEN 40 ELSE 0) + (IF r.basic THEN 25 ELSE 0)
     + (IF s3.isBlocked THEN s3.confidence ELSE 0)
     + (IF s4.isBlocked THEN s4.confidence ELSE 0)
     + (IF s5.isBlocked THEN s5.confidence ELSE 0)
     + (IF s6.isBlocked THEN s6.confidence ELSE 0)

\* C20: the verdict is isBlocked exactly when the confidence of the
\* triggered stages adds up to at least 30, and the reported confidence is
\* never above 100.
C20_VerdictAtThreshold ==
  detection # NoDetection =>
    /\ detection.isBlocked = (TotalConfidence(response) >= 30)
    /\ detection.confidence <= 100

\* C20 witness: a response whose stages add up to more than 100 is blocked
\* and reported with confidence 100.
C20_Witness ==
  /\ detection # NoDetection
  /\ TotalConfidence(response) > 100
  /\ detection.isBlocked
  /\ detection.confidence = 100

\* the block category a stage sets when it is the first one to trigger
StageCategory(name, r) ==
  CASE name = "url_pattern" -> "url_redirect"
    [] name = "basic_content" -> "content_keyword"
    [] name = "duckduckgo_specific" -> DetectDuckDuckGoSpecificBlocks(r.duckduckgo).blockType
    [] name = "visual_elements" -> "visual_captcha"
    [] name = "behavior_pattern" -> "anti_bot"
    [] OTHER -> "page_structure"

\* C21: the reported block category is the one of the first stage that
\* triggered; a stage that triggers later does not replace it.
C21_FirstCategoryKept ==
  (detection # NoDetection /\ detection.triggeredStages # <<>>) =>
    detection.blockType = StageCategory(detection.triggeredStages[1], response)

\* C22: block detection changes no state: the counter of CAPTCHA events,
\* which the adaptive timeout and the adaptive concurrency read, still has
\* the value it had before the response was examined.
C22_DetectionChangesNothing == detection # NoDetection => captchaEvents = 0

\* C23: when every failure recentFailures holds is more than five minutes older
\* than a getBackoffDelay() call, that call returned 0
C23_StaleFailuresIgnored ==
  (/\ lastBackoff.called
   /\ \A i \in 1..Len(recentFailures) : lastBackoff.at - recentFailures[i] > FiveMinutes)
    => lastBackoff.delay = 0

RECURSIVE AllEqual(_, _)
AllEqual(s, v) == s = <<>> \/ (Head(s) = v /\ AllEqual(Tail(s), v))

\* C24: after 20 samples of which the first ten are 1 s and the last ten are 41 s the
\* trend is degrading with confidence above 0.7, and after 20 equal samples the trend
\* is stable with confidence below 0.7
C24_StepDegradingConstantUnsure ==
  totalRequests = 20 =>
    /\ (AllEqual(SubSeq(recentResponseTimes, 1, 10), 1)
          /\ AllEqual(SubSeq(recentResponseTimes, 11, 20), 41))
         => (responseTrend = "degrading" /\ trendConfidence > 70)
    /\ (\E v \in Latencies : AllEqual(recentResponseTimes, v))
         => (responseTrend = "stable" /\ trendConfidence < 70)

\* C25: the controller keeps maxConcurrency within 1..3, reduces it only while fewer
\* than 3 reductions are outstanding and switches the endpoint only while fewer than 2
\* of its switches are outstanding
C25_AdjustmentsBounded ==
  /\ maxConcurrency \in 1..3
  /\ lastAdjust.reduced => lastAdjust.reductionsBefore < 3
  /\ lastAdjust.switched => lastAdjust.switchesBefore < 2

\* a reduction, a switch and a restoration have each been performed
C25_Witness ==
  /\ lastAdjust.restored
  /\ currentDomainIndex # 0
  /\ concurrencyReductions > 0

\* C30: the trend confidence lies between 0 and 1
C30_ConfidenceInUnitInterval == trendConfidence >= 0 /\ trendConfidence <= 100

\* an invocation nothing more can happen to: the child closed, no timer armed
WorkerOver(i) == workerCalls[i].child = "closed" /\ workerCalls[i].timer # "armed"

\* C26: an invocation's promise is settled at most once, and exactly once when the
\* invocation is over; when the timeout settled it, the child was sent the kill signal
\* and nothing the child did later settled it again
C26_OneOutcomePerInvocation ==
  \A i \in Invocations :
    /\ Len(workerCalls[i].settled) <= 1
    /\ WorkerOver(i) => Len(workerCalls[i].settled) = 1
    /\ workerCalls[i].timer = "fired" =>
         (workerCalls[i].killed /\ workerCalls[i].settled = <<"timeout">>)

\* the timeout fired first, the child wrote valid output and exited with 0 afterwards
C26_Witness ==
  \E i \in Invocations :
    /\ workerCalls[i].timer = "fired"
    /\ workerCalls[i].child = "closed"
    /\ workerCalls[i].stdout = "json"
    /\ workerCalls[i].settled = <<"timeout">>

\* C27: every context the switch closes had saveContextState run for it before, and
\* the headed browser is launched only after the close of the old browser settled
C27_SavedBeforeClosedThenLaunched ==
  /\ \A x \in 1..MaxContexts :
       switchCall.ctxs[x] # "none" => switchCall.save[x] \in {"saved", "failed"}
  /\ (switchCall.pc \in {"launching", "done"} /\ switchCall.old # 0)
       => switchCall.browser \in {"closed", "failed"}

\* C28: the pool never holds more than min(2, maxTabs) prewarmed tabs
C28_PrewarmedTabsBounded == warmTabs <= PrewarmTarget

C33_LaterCallStillEscalates ==
  (hasBrowserPool /\ sweepEnd = "aborted" /\ lastError = "CAPTCHA_DETECTED")
    => escalations >= 1

\* the race of executeAll was lost by task t: its result is the timeout
TimedOut(t) ==
  /\ InBatch(t)
  /\ wres[t - bFirst] # <<>>
  /\ wres[t - bFirst][1].error = "timeout"

\* C34: a task whose executeAll timeout expired while it was waiting in the queue
\* is not started in any later step
C34_TimedOutQueuedNeverStarted ==
  [][\A t \in Tasks : (TimedOut(t) /\ tstate[t] = "queued") => tstate'[t] # "running"]_vars

\* C40: once every submitted task has finished, each has been counted once, as
\* completed or as failed
C40_EachTaskCountedOnce ==
  (\A t \in Submitted : tstate[t] = "finished")
    => completedCount + failedCount = Cardinality(Submitted)

\* C39: the pool never counts more tabs closed than created
C39_ClosedAtMostCreated == totalTabsClosed <= totalTabsCreated

\* C36: whenever the pool holds a live browser, the periodic idle sweep is scheduled
C36_SweepScheduledWithBrowser ==
  (singleBrowser # 0 /\ browsers[singleBrowser] = "alive") => cleanupInterval

\* a tab is open in context x, or a createTab or prewarmTabs call awaits newPage() on it
InUse(x) ==
  \/ ~IsEmpty(x)
  \/ \E p \in Procs : pc[p] = "newPage" /\ loc[p].context = x

\* C35: the idle sweep never closes a context in which a tab is open or being opened
C35_SweepSparesContextsInUse ==
  [][\A k \in ContextIds : (sweep[k] # 0 /\ sweep'[k] = 0) => ~InUse(sweep[k])]_vars

\* C37: when a teardown completes (cleanup() clears the browser handle) no prewarmed
\* tab is left for createTab to hand out
C37_NoPrewarmedTabSurvivesTeardown ==
  [][(singleBrowser # 0 /\ singleBrowser' = 0) => prewarmedTabs' = <<>>]_vars

\* C38: an updateConfig call that throws (the limit it was given is not positive)
\* leaves the limit as it was, and no later checkLimit refuses a call with an
\* empty window
C38_RejectedUpdateChangesNothing ==
  /\ [][requestsPerSecond' <= 0 => requestsPerSecond' = requestsPerSecond]_vars
  /\ [](lastCheck.outcome = "RateLimitError" => lastCheck.retryAfter < Infinity)

\* C32: with several search() calls in flight on one searcher, a call whose sweep
\* ends in total failure has requested every endpoint
C32_ConcurrentSweepsCoverAll ==
  \A i \in Calls : sweeps[i].pc = "allFailed" => sweeps[i].attemptedDomains = Domains

====
